---- MODULE Spec2Model ----
(***************************************************************************)
(* Model of the log-entry encoders of smallstep/logging (package encoder): *)
(* the CLF encoder, the text encoder, the generic (primitive) encoder and  *)
(* the JSON-shaped object encoder with its string escaper.                 *)
(*                                                                         *)
(* Strings and buffers are sequences of bytes (0..255).  A byte literal is *)
(* followed by the character it stands for in a comment.                   *)
(***************************************************************************)
EXTENDS Integers, Sequences, FiniteSets, TLC

(***************************************************************************)
(* Bounds of the model.                                                    *)
(***************************************************************************)
\* longest field list handed to one EncodeEntry call
MaxFields == 2
\* most fields pre-bound on the template encoder (Clone + AddTo)
MaxCtx == 1

(***************************************************************************)
(* Byte-string helpers.                                                    *)
(***************************************************************************)
RECURSIVE Repeat(_, _)
Repeat(s, n) == IF n <= 0 THEN <<>> ELSE s \o Repeat(s, n - 1)

CountByte(s, b) == Cardinality({i \in 1..Len(s) : s[i] = b})

HasByte(s, b) == \E i \in 1..Len(s) : s[i] = b

\* s occurs in t as a contiguous run of bytes
Contains(t, s) ==
    \E i \in 0..(Len(t) - Len(s)) : SubSeq(t, i + 1, i + Len(s)) = s

RemoveAt(seq, p) == SubSeq(seq, 1, p - 1) \o SubSeq(seq, p + 1, Len(seq))

\* the nil error
NoErr == <<>>

(***************************************************************************)
(* unicode/utf8: DecodeRune, as the escaper and fmt's width use it.        *)
(* Returns the rune and the number of bytes consumed; an invalid or short  *)
(* sequence yields (RuneError, 1).                                         *)
(***************************************************************************)
RuneSelf == 128
RuneError == 65533

IsCont(b) == 128 <= b /\ b <= 191

\* length announced by a leading byte (0: not a valid leading byte)
utf8Size(b) ==
    IF b < 128 THEN 1
    ELSE IF 194 <= b /\ b <= 223 THEN 2
    ELSE IF 224 <= b /\ b <= 239 THEN 3
    ELSE IF 240 <= b /\ b <= 244 THEN 4
    ELSE 0

\* accepted range of the second byte after leading byte b
utf8AcceptLo(b) == IF b = 224 THEN 160 ELSE IF b = 240 THEN 144 ELSE 128
utf8AcceptHi(b) == IF b = 237 THEN 159 ELSE IF b = 244 THEN 143 ELSE 191

DecodeRune(s) ==
    LET n  == Len(s)
        b0 == s[1]
        sz == utf8Size(b0)
        bad == [r |-> RuneError, size |-> 1]
    IN  IF n < 1 THEN [r |-> RuneError, size |-> 0]
        ELSE IF sz = 1 THEN [r |-> b0, size |-> 1]
        ELSE IF sz = 0 \/ n < sz THEN bad
        ELSE IF s[2] < utf8AcceptLo(b0) \/ s[2] > utf8AcceptHi(b0) THEN bad
        ELSE IF sz = 2 THEN [r |-> (b0 % 32) * 64 + (s[2] % 64), size |-> 2]
        ELSE IF ~IsCont(s[3]) THEN bad
        ELSE IF sz = 3
             THEN [r |-> (b0 % 16) * 4096 + (s[2] % 64) * 64 + (s[3] % 64),
                   size |-> 3]
        ELSE IF ~IsCont(s[4]) THEN bad
        ELSE [r |-> (b0 % 8) * 262144 + (s[2] % 64) * 4096
                    + (s[3] % 64) * 64 + (s[4] % 64),
              size |-> 4]

RECURSIVE RuneCountInString(_)
RuneCountInString(s) ==
    IF s = <<>> THEN 0
    ELSE 1 + RuneCountInString(SubSeq(s, DecodeRune(s).size + 1, Len(s)))

(***************************************************************************)
(* strconv / buffer.AppendInt: decimal text of an integer.                 *)
(***************************************************************************)
RECURSIVE FormatUint(_)
FormatUint(n) ==
    IF n < 10 THEN <<48 + n>> ELSE FormatUint(n \div 10) \o <<48 + (n % 10)>>

FormatInt(n) == IF n < 0 THEN <<45>> \o FormatUint(0 - n) ELSE FormatUint(n)

(***************************************************************************)
(* objectEncoder (generic_encoder.go): the JSON-shaped encoder.  Its state *)
(* is the buffer it shares with the encoder that created it, so every      *)
(* method is a function from buffer to buffer.                             *)
(***************************************************************************)
\* "0123456789abcdef"
_hex == <<48,49,50,51,52,53,54,55,56,57,97,98,99,100,101,102>>

\* tryAddRuneSelf without its case for '\t'
objectEncoder_tryAddRuneSelf_noTab(buf, b) ==
    IF b >= RuneSelf THEN [buf |-> buf, ok |-> FALSE]
    ELSE IF 32 <= b /\ b # 92 /\ b # 34
         THEN [buf |-> Append(buf, b), ok |-> TRUE]
    ELSE IF b = 92 \/ b = 34 THEN [buf |-> buf \o <<92, b>>, ok |-> TRUE]
    ELSE IF b = 10 THEN [buf |-> buf \o <<92, 110>>, ok |-> TRUE]
    ELSE IF b = 13 THEN [buf |-> buf \o <<92, 114>>, ok |-> TRUE]
    ELSE [buf |-> buf \o <<92,117,48,48>>
                      \o <<_hex[(b \div 16) + 1], _hex[(b % 16) + 1]>>,
          ok |-> TRUE]

\* tryAddRuneSelf: [buf, ok]
objectEncoder_tryAddRuneSelf(buf, b) ==
    IF b >= RuneSelf THEN [buf |-> buf, ok |-> FALSE]
    ELSE IF 32 <= b /\ b # 92 /\ b # 34            \* 0x20 <= b, not '\\', not '"'
         THEN [buf |-> Append(buf, b), ok |-> TRUE]
    ELSE IF b = 92 \/ b = 34 THEN [buf |-> buf \o <<92, b>>, ok |-> TRUE]
    ELSE IF b = 10 THEN [buf |-> buf \o <<92, 110>>, ok |-> TRUE]   \* \n
    ELSE IF b = 13 THEN [buf |-> buf \o <<92, 114>>, ok |-> TRUE]   \* \r
    ELSE IF b = 9  THEN [buf |-> buf \o <<92, 116>>, ok |-> TRUE]   \* \t
    ELSE [buf |-> buf \o <<92,117,48,48>>                           \* \u00
                      \o <<_hex[(b \div 16) + 1], _hex[(b % 16) + 1]>>,
          ok |-> TRUE]

\* tryAddRuneError without its test of size
objectEncoder_tryAddRuneError_anySize(buf, r, size) ==
    IF r = RuneError
    THEN [buf |-> buf \o <<92,117,102,102,102,100>>, ok |-> TRUE]
    ELSE [buf |-> buf, ok |-> FALSE]

\* tryAddRuneError: [buf, ok]
objectEncoder_tryAddRuneError(buf, r, size) ==
    IF r = RuneError /\ size = 1
    THEN [buf |-> buf \o <<92,117,102,102,102,100>>, ok |-> TRUE]   \* backslash u f f f d
    ELSE [buf |-> buf, ok |-> FALSE]

\* the loop of safeAppendString from index i (1-based) on
RECURSIVE safeAppendFrom(_, _, _)
safeAppendFrom(buf, s, i) ==
    IF i > Len(s) THEN buf
    ELSE LET self == objectEncoder_tryAddRuneSelf(buf, s[i])
         IN  IF self.ok THEN safeAppendFrom(self.buf, s, i + 1)
             ELSE LET d   == DecodeRune(SubSeq(s, i, Len(s)))
                      bad == objectEncoder_tryAddRuneError(buf, d.r, d.size)
                  IN  IF bad.ok THEN safeAppendFrom(bad.buf, s, i + 1)
                      ELSE safeAppendFrom(buf \o SubSeq(s, i, i + d.size - 1),
                                          s, i + d.size)

objectEncoder_safeAppendString(buf, s) == safeAppendFrom(buf, s, 1)

\* the []byte twin: the same loop over utf8.DecodeRune and buf.Write
RECURSIVE safeAddBytesFrom(_, _, _)
safeAddBytesFrom(buf, s, i) ==
    IF i > Len(s) THEN buf
    ELSE LET self == objectEncoder_tryAddRuneSelf(buf, s[i])
         IN  IF self.ok THEN safeAddBytesFrom(self.buf, s, i + 1)
             ELSE LET d   == DecodeRune(SubSeq(s, i, Len(s)))
                      bad == objectEncoder_tryAddRuneError(buf, d.r, d.size)
                  IN  IF bad.ok THEN safeAddBytesFrom(bad.buf, s, i + 1)
                      ELSE safeAddBytesFrom(buf \o SubSeq(s, i, i + d.size - 1),
                                            s, i + d.size)

objectEncoder_safeAddByteString(buf, s) == safeAddBytesFrom(buf, s, 1)

objectEncoder_addElementSeparator(buf) ==
    IF Len(buf) - 1 < 0 THEN buf
    ELSE IF buf[Len(buf)] \in {123, 91, 58, 44, 32}     \* '{' '[' ':' ',' ' '
         THEN buf
    ELSE Append(buf, 44)                                 \* ','

objectEncoder_AppendString(buf, v) ==
    objectEncoder_safeAppendString(Append(buf, 34), v) \o <<34>>

objectEncoder_AppendByteString(buf, v) ==
    objectEncoder_safeAddByteString(
        Append(objectEncoder_addElementSeparator(buf), 34), v) \o <<34>>

objectEncoder_AppendInt64(buf, v) == buf \o FormatInt(v)

\* buffer.AppendBool
objectEncoder_AppendBool(buf, v) ==
    buf \o (IF v THEN <<116,114,117,101>> ELSE <<102,97,108,115,101>>)

objectEncoder_addKey(buf, key) ==
    Append(objectEncoder_AppendString(objectEncoder_addElementSeparator(buf), key), 58)

objectEncoder_AddString(buf, key, value) ==
    objectEncoder_AppendString(objectEncoder_addKey(buf, key), value)

objectEncoder_AddInt64(buf, key, value) ==
    objectEncoder_AppendInt64(objectEncoder_addKey(buf, key), value)

objectEncoder_AddBool(buf, key, value) ==
    objectEncoder_AppendBool(objectEncoder_addKey(buf, key), value)


(***************************************************************************)
(* Fields.  A zapcore.Field is modelled as a record                        *)
(*   key   the key bytes                                                   *)
(*   type  "String" | "Int64" | "Object" | "Array" | "Reflect"             *)
(*   str   the string value (String), or what json.Marshal returns for the *)
(*         value (Reflect, when ok)                                        *)
(*   num   the integer value (Int64)                                       *)
(*   ok    Reflect: json.Marshal succeeds                                  *)
(*   elems Object/Array: what the value's marshaler hands to the encoder,  *)
(*         a sequence of [ekey, etype, estr, enum] with etype one of       *)
(*         "String", "ByteString", "Int64", "Bool"                         *)
(***************************************************************************)
StringField(k, v)  == [key |-> k, type |-> "String", str |-> v, num |-> 0,
                       ok |-> TRUE, elems |-> <<>>]
Int64Field(k, n)   == [key |-> k, type |-> "Int64", str |-> <<>>, num |-> n,
                       ok |-> TRUE, elems |-> <<>>]
ObjectField(k, es) == [key |-> k, type |-> "Object", str |-> <<>>, num |-> 0,
                       ok |-> TRUE, elems |-> es]
ArrayField(k, es)  == [key |-> k, type |-> "Array", str |-> <<>>, num |-> 0,
                       ok |-> TRUE, elems |-> es]
ReflectField(k, json, succeeds) ==
    [key |-> k, type |-> "Reflect", str |-> json, num |-> 0,
     ok |-> succeeds, elems |-> <<>>]

Elem(k, t, v, n) == [ekey |-> k, etype |-> t, estr |-> v, enum |-> n]

IsStructured(f) == f.type \in {"Object", "Array", "Reflect"}

\* the text of the error json.Marshal returns: "json: unsupported value"
MarshalErr == <<106,115,111,110,58,32,117,110,115,117,112,112,111,114,116,
                101,100,32,118,97,108,117,101>>

\* a value's MarshalLogObject: one Add* call on the object encoder per member
RECURSIVE MarshalLogObject(_, _)
MarshalLogObject(buf, es) ==
    IF es = <<>> THEN buf
    ELSE LET e == Head(es)
             b == CASE e.etype = "String" -> objectEncoder_AddString(buf, e.ekey, e.estr)
                    [] e.etype = "ByteString" -> objectEncoder_AddString(buf, e.ekey, e.estr)
                    [] e.etype = "Int64"  -> objectEncoder_AddInt64(buf, e.ekey, e.enum)
                    [] e.etype = "Bool"   -> objectEncoder_AddBool(buf, e.ekey, e.enum # 0)
         IN  MarshalLogObject(b, Tail(es))

\* a value's MarshalLogArray: one Append* call on the object encoder per element
RECURSIVE MarshalLogArray(_, _)
MarshalLogArray(buf, es) ==
    IF es = <<>> THEN buf
    ELSE LET e == Head(es)
             b == CASE e.etype = "String" -> objectEncoder_AppendString(buf, e.estr)
                    [] e.etype = "ByteString" -> objectEncoder_AppendByteString(buf, e.estr)
                    [] e.etype = "Int64"  -> objectEncoder_AppendInt64(buf, e.enum)
                    [] e.etype = "Bool"   -> objectEncoder_AppendBool(buf, e.enum # 0)
         IN  MarshalLogArray(b, Tail(es))

(***************************************************************************)
(* genericEncoder (generic_encoder.go): raw appends to the buffer.         *)
(***************************************************************************)
\* pool.Get(): a buffer of length 0
poolGet == <<>>

genericEncoder_AppendString(buf, v) == buf \o v
genericEncoder_AppendByteString(buf, v) == buf \o v
genericEncoder_AppendInt64(buf, v) == buf \o FormatInt(v)

\* '[' , the marshaler on GetObjectEncoder() (same buffer), ']' ; returns nil
genericEncoder_AppendArray(buf, es) ==
    [buf |-> Append(MarshalLogArray(Append(buf, 91), es), 93), err |-> NoErr]

\* '{' , the marshaler on GetObjectEncoder() (same buffer), '}' ; returns nil
genericEncoder_AppendObject(buf, es) ==
    [buf |-> Append(MarshalLogObject(Append(buf, 123), es), 125), err |-> NoErr]

(***************************************************************************)
(* The operations that return an error (generic_encoder.go).               *)
(***************************************************************************)
\* json.Marshal first; on failure the error and nothing appended
genericEncoder_AppendReflected(buf, f) ==
    IF ~f.ok THEN [buf |-> buf, err |-> MarshalErr]
    ELSE [buf |-> buf \o f.str, err |-> NoErr]

objectEncoder_AppendReflected(buf, f) ==
    IF ~f.ok THEN [buf |-> buf, err |-> MarshalErr]
    ELSE [buf |-> buf \o f.str, err |-> NoErr]

\* AddReflected writing the key before it serializes the value
objectEncoder_AddReflected_keyFirst(buf, key, f) ==
    IF ~f.ok THEN [buf |-> objectEncoder_addKey(buf, key), err |-> MarshalErr]
    ELSE [buf |-> objectEncoder_addKey(buf, key) \o f.str, err |-> NoErr]

\* json.Marshal first; addKey only when it succeeded
objectEncoder_AddReflected(buf, key, f) ==
    IF ~f.ok THEN [buf |-> buf, err |-> MarshalErr]
    ELSE [buf |-> objectEncoder_addKey(buf, key) \o f.str, err |-> NoErr]

\* '[' , the marshaler on e, ']' ; what the marshaler returns is dropped
objectEncoder_AppendArray(buf, elems) ==
    [buf |-> Append(MarshalLogArray(Append(buf, 91), elems), 93), err |-> NoErr]

\* '{' , the marshaler on e, '}' ; what the marshaler returns is dropped
objectEncoder_AppendObject(buf, elems) ==
    [buf |-> Append(MarshalLogObject(Append(buf, 123), elems), 125), err |-> NoErr]

objectEncoder_AddArray(buf, key, elems) ==
    objectEncoder_AppendArray(objectEncoder_addKey(buf, key), elems)

objectEncoder_AddObject(buf, key, elems) ==
    objectEncoder_AppendObject(objectEncoder_addKey(buf, key), elems)

(***************************************************************************)
(* clfEncoder (clf_encoder.go).  An encoder is its data slice: 11 strings. *)
(* Indexes are 1-based here, 0-based in the source.                        *)
(***************************************************************************)
clfFields == <<
    <<114,101,113,117,101,115,116,45,105,100>>,                  \* request-id
    <<114,101,109,111,116,101,45,97,100,100,114,101,115,115>>,   \* remote-address
    <<110,97,109,101>>,                                          \* name
    <<117,115,101,114,45,105,100>>,                              \* user-id
    <<116,105,109,101>>,                                         \* time
    <<100,117,114,97,116,105,111,110>>,                          \* duration
    <<109,101,116,104,111,100>>,                                 \* method
    <<112,97,116,104>>,                                          \* path
    <<112,114,111,116,111,99,111,108>>,                          \* protocol
    <<115,116,97,116,117,115>>,                                  \* status
    <<115,105,122,101>> >>                                       \* size

\* init(): every slot "-"
clfFieldsEmpty == [i \in 1..Len(clfFields) |-> <<45>>]

\* _, ok := clfFieldsMap[key]
clfFieldsMapHas(key) == \E i \in 1..Len(clfFields) : clfFields[i] = key

\* i, _ := clfFieldsMap[key]
clfFieldsMap(key) == CHOOSE i \in 1..Len(clfFields) : clfFields[i] = key

\* data: make([]string, 11), every slot ""
NewCLFEncoder == [i \in 1..Len(clfFields) |-> <<>>]

\* the carrying clone: copy(data, e.data)
clfEncoder_Clone(e) == [i \in 1..Len(clfFields) |-> e[i]]

\* the fresh sibling copying e.data, as Clone does
clfEncoder_clone_carrying(e) == [i \in 1..Len(clfFields) |-> e[i]]

\* the fresh sibling: copy(data, clfFieldsEmpty)
clfEncoder_clone(e) == [i \in 1..Len(clfFields) |-> clfFieldsEmpty[i]]

\* AddString leaving a column that was already written
clfEncoder_AddString_firstWins(e, key, value) ==
    IF clfFieldsMapHas(key) /\ e[clfFieldsMap(key)] = <<45>>
    THEN [e EXCEPT ![clfFieldsMap(key)] = value] ELSE e

clfEncoder_AddString(e, key, value) ==
    IF clfFieldsMapHas(key) THEN [e EXCEPT ![clfFieldsMap(key)] = value] ELSE e

clfEncoder_AddInt64(e, key, value) ==
    IF clfFieldsMapHas(key) THEN [e EXCEPT ![clfFieldsMap(key)] = FormatInt(value)]
    ELSE e

\* AddObject writing "{}" to the key's column
clfEncoder_AddObject_writing(e, key, es) ==
    [enc |-> IF clfFieldsMapHas(key)
             THEN [e EXCEPT ![clfFieldsMap(key)] = <<123, 125>>] ELSE e,
     err |-> NoErr]

clfEncoder_AddArray(e, key, es) == [enc |-> e, err |-> NoErr]
clfEncoder_AddObject(e, key, es) == [enc |-> e, err |-> NoErr]
clfEncoder_AddReflected(e, key, f) == [enc |-> e, err |-> NoErr]

\* zapcore.Field.AddTo on a clfEncoder: dispatch on the field's type; an
\* error of the Add* call is added as the string field <key>Error
clfAddTo(e, f) ==
    LET r == CASE f.type = "String"  ->
                    [enc |-> clfEncoder_AddString(e, f.key, f.str), err |-> NoErr]
               [] f.type = "Int64"   ->
                    [enc |-> clfEncoder_AddInt64(e, f.key, f.num), err |-> NoErr]
               [] f.type = "Object"  -> clfEncoder_AddObject(e, f.key, f.elems)
               [] f.type = "Array"   -> clfEncoder_AddArray(e, f.key, f.elems)
               [] f.type = "Reflect" -> clfEncoder_AddReflected(e, f.key, f)
    IN  IF r.err # NoErr
        THEN clfEncoder_AddString(r.enc, f.key \o <<69,114,114,111,114>>, r.err)
        ELSE r.enc

\* for i := range fields { fields[i].AddTo(final) }
RECURSIVE clfAddFields(_, _)
clfAddFields(e, fs) ==
    IF fs = <<>> THEN e ELSE clfAddFields(clfAddTo(e, Head(fs)), Tail(fs))

\* the appends with data[6] and data[7] (method, path) exchanged
clfWriteLine_swapped(buf, d) ==
    buf \o d[1] \o <<32>> \o d[2] \o <<32>> \o d[3] \o <<32>> \o d[4] \o <<32>>
        \o d[5] \o <<32>> \o d[6] \o <<32, 34>> \o d[8] \o <<32>> \o d[7]
        \o <<32>> \o d[9] \o <<34, 32>> \o d[10] \o <<32>> \o d[11] \o <<10>>

\* the eleven appends of EncodeEntry, lines 83-104
clfWriteLine(buf, d) ==
    buf \o d[1] \o <<32>> \o d[2] \o <<32>> \o d[3] \o <<32>> \o d[4] \o <<32>>
        \o d[5] \o <<32>> \o d[6] \o <<32, 34>> \o d[7] \o <<32>> \o d[8]
        \o <<32>> \o d[9] \o <<34, 32>> \o d[10] \o <<32>> \o d[11] \o <<10>>

\* the message written without its "\n"
clfWriteMessage_noNewline(message) ==
    IF message # <<>> THEN poolGet \o message ELSE poolGet

\* the message line, lines 71-74
clfWriteMessage(message) ==
    IF message # <<>> THEN poolGet \o message \o <<10>> ELSE poolGet

\* EncodeEntry without the early return for an empty field list
clfEncoder_EncodeEntry_noReturn(e, ent, fs) ==
    [buf |-> clfWriteLine(clfWriteMessage(ent.msg),
                          clfAddFields(clfEncoder_clone(e), fs)),
     err |-> NoErr]

clfEncoder_EncodeEntry(e, ent, fs) ==
    LET final == clfEncoder_clone(e)
        buf   == clfWriteMessage(ent.msg)
    IN  IF Len(fs) = 0 THEN [buf |-> buf, err |-> NoErr]
        ELSE [buf |-> clfWriteLine(buf, clfAddFields(final, fs)),
              err |-> NoErr]


(***************************************************************************)
(* Durations and times on the CLF encoder (clf_encoder.go).  A duration is *)
(* its count of nanoseconds; a time is its wall clock in its own location, *)
(* [year, month, day, hour, min, sec, off] with off the zone offset in     *)
(* minutes.  cfg is the encoder's EncoderConfig: [EncodeTime,              *)
(* EncodeDuration], each "nil" or the name of an override.                 *)
(***************************************************************************)
DurationField(k, d) == [key |-> k, type |-> "Duration", str |-> <<>>, num |-> d,
                        ok |-> TRUE, elems |-> <<>>]
TimeField(k, t) == [key |-> k, type |-> "Time", str |-> <<>>, num |-> 0,
                    ok |-> TRUE, elems |-> <<>>, time |-> t]

\* Milliseconds() as a floor division
Duration_Milliseconds_floor(d) == d \div 1000000

\* time.Duration.Milliseconds(): int64(d) / 1e6, Go's integer division,
\* which truncates toward zero
Duration_Milliseconds(d) ==
    IF d >= 0 THEN d \div 1000000 ELSE 0 - ((0 - d) \div 1000000)

Pad2(n) == <<48 + (n \div 10), 48 + (n % 10)>>
Pad4(n) == Pad2(n \div 100) \o Pad2(n % 100)

\* value.Format(time.RFC3339): 2006-01-02T15:04:05Z07:00
Format_RFC3339(t) ==
    Pad4(t.year) \o <<45>> \o Pad2(t.month) \o <<45>> \o Pad2(t.day) \o <<84>>
        \o Pad2(t.hour) \o <<58>> \o Pad2(t.min) \o <<58>> \o Pad2(t.sec)
        \o (IF t.off = 0 THEN <<90>>
            ELSE LET a == IF t.off < 0 THEN 0 - t.off ELSE t.off
                 IN  <<IF t.off < 0 THEN 45 ELSE 43>> \o Pad2(a \div 60)
                         \o <<58>> \o Pad2(a % 60))

\* AddDuration honouring the configured EncodeDuration
\* (zapcore.NanosDurationEncoder: the count of nanoseconds)
clfEncoder_AddDuration_configured(e, cfg, key, value) ==
    IF clfFieldsMapHas(key)
    THEN [e EXCEPT ![clfFieldsMap(key)] =
             IF cfg.EncodeDuration = "Nanos" THEN FormatInt(value)
             ELSE FormatInt(Duration_Milliseconds(value))]
    ELSE e

\* the configuration is not read
clfEncoder_AddDuration(e, cfg, key, value) ==
    IF clfFieldsMapHas(key)
    THEN [e EXCEPT ![clfFieldsMap(key)] = FormatInt(Duration_Milliseconds(value))]
    ELSE e

\* the configuration is not read
clfEncoder_AddTime(e, cfg, key, value) ==
    IF clfFieldsMapHas(key)
    THEN [e EXCEPT ![clfFieldsMap(key)] = Format_RFC3339(value)]
    ELSE e

\* zapcore.Field.AddTo on a clfEncoder built with cfg
clfAddToCfg(e, cfg, f) ==
    CASE f.type = "Duration" -> clfEncoder_AddDuration(e, cfg, f.key, f.num)
      [] f.type = "Time"     -> clfEncoder_AddTime(e, cfg, f.key, f.time)
      [] OTHER               -> clfAddTo(e, f)

(***************************************************************************)
(* textEncoder (text_encoder.go).  An encoder is [buf, colorStart].        *)
(***************************************************************************)
red      == <<27,91,51,49,109>>      \* "\x1b[31m"
yellow   == <<27,91,51,51,109>>      \* "\x1b[33m"
blue     == <<27,91,51,54,109>>      \* "\x1b[36m"
colorEnd == <<27,91,48,109>>         \* "\x1b[0m"

\* the width of the message field in " %-44s "
MsgWidth == 44

Levels == {"debug", "info", "warn", "error", "dpanic", "panic", "fatal"}

\* strings.ToUpper(entry.Level.String())
LevelName(level) ==
    CASE level = "debug"  -> <<68,69,66,85,71>>
      [] level = "info"   -> <<73,78,70,79>>
      [] level = "warn"   -> <<87,65,82,78>>
      [] level = "error"  -> <<69,82,82,79,82>>
      [] level = "dpanic" -> <<68,80,65,78,73,67>>
      [] level = "panic"  -> <<80,65,78,73,67>>
      [] level = "fatal"  -> <<70,65,84,65,76>>

\* the switch without zapcore.DPanicLevel in its second case
LevelColor_noDPanic(level) ==
    CASE level = "warn" -> yellow
      [] level \in {"error", "panic", "fatal"} -> red
      [] OTHER -> blue

\* the switch of EncodeEntry, lines 75-82
LevelColor(level) ==
    CASE level = "warn" -> yellow
      [] level \in {"error", "dpanic", "panic", "fatal"} -> red
      [] OTHER -> blue

\* " %-44.44s ": padded and cut to the width
Sprintf_msg_cut(message) ==
    <<32>> \o (IF RuneCountInString(message) > MsgWidth
               THEN SubSeq(message, 1, MsgWidth)
               ELSE message \o Repeat(<<32>>, MsgWidth - RuneCountInString(message)))
           \o <<32>>

\* fmt.Sprintf(" %-44s ", message): left-justified, padded with spaces to
\* the width counted in runes; fmt has no precision here, so nothing is cut
Sprintf_msg(message) ==
    <<32>> \o message \o Repeat(<<32>>, MsgWidth - RuneCountInString(message))
           \o <<32>>

NewTextEncoder == [buf |-> poolGet, colorStart |-> <<>>]

\* the fresh sibling: a new buffer from the pool
textEncoder_clone(e) == [buf |-> poolGet, colorStart |-> e.colorStart]

\* the carrying clone: the fresh sibling plus the bytes written so far
textEncoder_Clone(e) ==
    LET enc == textEncoder_clone(e) IN [enc EXCEPT !.buf = @ \o e.buf]

textEncoder_addKey(e, key) ==
    LET b == IF e.colorStart # <<>>
             THEN genericEncoder_AppendString(e.buf, e.colorStart \o key \o colorEnd)
             ELSE genericEncoder_AppendString(e.buf, key)
    IN  [e EXCEPT !.buf = genericEncoder_AppendString(b, <<61>>)]      \* "="

textEncoder_addMessage(e, level, message) ==
    LET b == IF e.colorStart # <<>>
             THEN genericEncoder_AppendString(e.buf, e.colorStart \o level \o colorEnd)
             ELSE genericEncoder_AppendString(e.buf, level)
    IN  [e EXCEPT !.buf = genericEncoder_AppendString(b, Sprintf_msg(message))]

textEncoder_AddString(e, key, value) ==
    LET k == textEncoder_addKey(e, key)
    IN  [k EXCEPT !.buf = genericEncoder_AppendString(@, value)]

textEncoder_AddInt64(e, key, value) ==
    LET k == textEncoder_addKey(e, key)
    IN  [k EXCEPT !.buf = genericEncoder_AppendInt64(@, value)]

textEncoder_AddArray(e, key, es) ==
    LET k == textEncoder_addKey(e, key)
        r == genericEncoder_AppendArray(k.buf, es)
    IN  [enc |-> [k EXCEPT !.buf = r.buf], err |-> r.err]

textEncoder_AddObject(e, key, es) ==
    LET k == textEncoder_addKey(e, key)
        r == genericEncoder_AppendObject(k.buf, es)
    IN  [enc |-> [k EXCEPT !.buf = r.buf], err |-> r.err]

\* json.Marshal, then the bytes alone: no addKey here
textEncoder_AddReflected(e, key, f) ==
    IF ~f.ok THEN [enc |-> e, err |-> MarshalErr]
    ELSE [enc |-> [e EXCEPT !.buf = genericEncoder_AppendByteString(@, f.str)],
          err |-> NoErr]

\* zapcore.Field.AddTo on a textEncoder
textAddTo(e, f) ==
    LET r == CASE f.type = "String"  ->
                    [enc |-> textEncoder_AddString(e, f.key, f.str), err |-> NoErr]
               [] f.type = "Int64"   ->
                    [enc |-> textEncoder_AddInt64(e, f.key, f.num), err |-> NoErr]
               [] f.type = "Object"  -> textEncoder_AddObject(e, f.key, f.elems)
               [] f.type = "Array"   -> textEncoder_AddArray(e, f.key, f.elems)
               [] f.type = "Reflect" -> textEncoder_AddReflected(e, f.key, f)
    IN  IF r.err # NoErr
        THEN textEncoder_AddString(r.enc, f.key \o <<69,114,114,111,114>>, r.err)
        ELSE r.enc

\* the field loop leaving at the first field whose Add* call fails
RECURSIVE textAddFields_stopOnError(_, _)
textAddFields_stopOnError(e, fs) ==
    IF fs = <<>> THEN e
    ELSE IF Head(fs).type = "Reflect" /\ ~Head(fs).ok THEN e
    ELSE LET a == textAddTo(e, Head(fs))
         IN  textAddFields_stopOnError([a EXCEPT !.buf = @ \o <<32>>], Tail(fs))

\* for i := range fields { fields[i].AddTo(final); final.buf.AppendString(" ") }
RECURSIVE textAddFields(_, _)
textAddFields(e, fs) ==
    IF fs = <<>> THEN e
    ELSE LET a == textAddTo(e, Head(fs))
         IN  textAddFields([a EXCEPT !.buf = @ \o <<32>>], Tail(fs))

textEncoder_EncodeEntry(e, ent, fs) ==
    LET final0 == [textEncoder_clone(e) EXCEPT !.colorStart = LevelColor(ent.level)]
        final1 == textEncoder_addMessage(final0, LevelName(ent.level), ent.msg)
        final2 == textAddFields(final1, fs)
    IN  [buf |-> final2.buf \o <<10>>, err |-> NoErr]


(***************************************************************************)
(* The inputs of the encoder harness.                                      *)
(***************************************************************************)
kName   == clfFields[3]
kUserId == clfFields[4]
kPath   == clfFields[8]
kStatus == clfFields[10]
kSize   == clfFields[11]
kOther  == <<111,116,104,101,114>>           \* "other": not a CLF key

\* {"a":1}
JsonA1 == <<123,34,97,34,58,49,125>>

FieldPool == {
    StringField(kName, <<115,118,99>>),                    \* name="svc"
    StringField(kPath, <<47>>),                            \* path="/"
    StringField(kOther, <<118>>),                          \* other="v"
    StringField(kStatus, <<120,10,121>>),                  \* status="x\ny"
    Int64Field(kStatus, 200),
    ObjectField(kName, <<Elem(<<97>>, "Int64", <<>>, 1)>>),
    ArrayField(kOther, <<Elem(<<>>, "Int64", <<>>, 1), Elem(<<>>, "Int64", <<>>, 2)>>),
    ReflectField(kStatus, JsonA1, TRUE),
    ReflectField(kSize, <<>>, FALSE) }

CtxPool == { StringField(kName, <<115,118,99>>), StringField(kOther, <<118>>) }

\* messages: empty, short, with a newline, one two-byte character,
\* exactly MsgWidth characters, one more
Msgs == { <<>>, <<109>>, <<97,10,98>>, <<195,169>>,
          Repeat(<<109>>, MsgWidth), Repeat(<<109>>, MsgWidth) \o <<110>> }

EntryLevels == {"info", "warn", "error"}

RECURSIVE SeqsUpTo(_, _)
SeqsUpTo(S, n) ==
    IF n = 0 THEN {<<>>}
    ELSE LET shorter == SeqsUpTo(S, n - 1)
         IN  shorter \cup {Append(q, x) : q \in shorter, x \in S}

FieldLists == SeqsUpTo(FieldPool, MaxFields)

NoEntry == [msg |-> <<>>, level |-> "info"]
NoOut   == [buf |-> <<>>, err |-> NoErr]

(***************************************************************************)
(* State.  Four harnesses, each with its own variables; a specification    *)
(* runs one of them and leaves the others idle.                            *)
(***************************************************************************)
VARIABLES
    \* the encoder harness (Spec)
    encKind,    \* "text" | "clf": the format of the template
    clfEnc,     \* the CLF template's data
    textEnc,    \* the text template: [buf, colorStart]
    ctx,        \* the fields pre-bound on the template, in order
    pc,         \* "ready" | "done"
    entry,      \* the entry of the last EncodeEntry call: [msg, level]
    fields,     \* its field list
    out,        \* what it returned: [buf, err]
    \* clfEncoder.EncodeEntry step by step (SpecCLF)
    cpc,        \* "idle" | "loop" | "done"
    cmsg,       \* entry.Message
    cfinal,     \* final.data
    csup,       \* the fields handed to AddTo so far
    cbuf,       \* buf
    \* a marshaler driving the object encoder (SpecJSON)
    jbuf,       \* the buffer
    jstack,     \* the containers open, outermost first: "arr" | "obj"
    jcnt,       \* the elements written so far to each open container
    jref,       \* the same elements, one comma between neighbours
    jops,       \* the calls made so far
    \* the string escaper (SpecEsc)
    es,         \* the input bytes
    eoutS,      \* AppendString's buffer, or NotRun
    eoutB,      \* AppendByteString's buffer, or NotRun
    \* single Add*/Append* calls on one encoder (SpecOps)
    okind,      \* "generic" | "object" | "text": the encoder called
    obuf,       \* its buffer
    oprev,      \* its buffer before the last call
    oerr,       \* the error the last call returned, or NoErr
    oop,        \* the method last called
    ofail,      \* json.Marshal failed in the last call
    ocnt,       \* the calls made so far
    \* an encoder, its carrying clone and a fresh sibling in memory (SpecClone)
    hkind,      \* "clf" | "text"
    heap,       \* the storage by address: data slices (clf), buffers (text)
    hfree,      \* the addresses of the buffers lying in the pool
    horig,      \* the address of the original's data / buffer
    hclone,     \* of the carrying clone's, 0 before Clone()
    hsib,       \* of the fresh sibling's, 0 before clone()
    gorig,      \* what the original holds by the calls made on it
    gclone,     \* what the clone holds: the original at Clone(), then its own calls
    gsnap,      \* what the original held at Clone()
    hcnt,       \* the Add* calls made so far
    \* EncodeEntry calls running concurrently on one template (SpecConc)
    qkind,      \* "text" | "clf": the format of the shared template
    qheap,      \* the buffers by address; a text template's buffer is 1
    qfree,      \* the addresses of the buffers lying in the pool
    qpc,        \* per caller: "idle" | "msg" | "loop" | "returned"
    qbuf,       \* per caller: the address of its buffer, 0 when it has none
    qcall,      \* per caller: the call it makes, [ent, fs]
    qidx,       \* per caller: the index of the next field of its loop
    qsib,       \* per caller: its fresh sibling, colorStart (text) or data (clf)
    \* two CLF encoders with their own configurations (SpecCfg)
    gcfg,       \* the two configurations
    gpc,        \* "idle" | "loop" | "done"
    gmsg,       \* entry.Message, the same for both
    gfs,        \* the fields handed to AddTo so far, the same for both
    gdata,      \* final.data of each
    gbuf,       \* buf of each
    vcfg,           \* SpecVal: the encoders' configuration
    vobj,           \* SpecVal: the object encoder's buffer
    vtxt,           \* SpecVal: the text encoder
    vclf,           \* SpecVal: the CLF encoder's data
    vprev,          \* SpecVal: the three encoders before the last call
    vop,            \* SpecVal: the last call
    vseen,          \* SpecVal: the time the last call gave the formatter
    vcnt,           \* SpecVal: calls made
    nenv,           \* SpecNew: LOG_FORMAT and LOG_LEVEL
    nopts,          \* SpecNew: the options given to New
    nres,           \* SpecNew: what New returned
    nout,           \* SpecNew: entries written to stdout
    nerr,           \* SpecNew: entries written to stderr
    nlogs,          \* SpecNew: the levels of the log calls made
    nexit,          \* SpecNew: the process has exited
    tin,            \* SpecTrace: the string given to Parse
    tcur,           \* SpecTrace: the current Traceparent
    tfrom,          \* SpecTrace: the call that made tcur
    terr,           \* SpecTrace: the last call returned an error
    top,            \* SpecTrace: the last call
    tprev,          \* SpecTrace: tcur before the last call
    tnew,           \* SpecTrace: what NewSpan returned
    tout,           \* SpecTrace: what String returned
    tback,          \* SpecTrace: Parse of what String returned
    trnd,           \* SpecTrace: the bytes left in the random source
    tprnd,          \* SpecTrace: trnd before the last call
    tcnt,           \* SpecTrace: calls made
    mhdr,           \* SpecTrace: the request's values for the trace header
    mreq,           \* SpecTrace: mhdr before the last request was served
    mctx,           \* SpecTrace: the traceparent in the request's context
    mnext,          \* SpecTrace: calls of next for the last request
    rwcaps,         \* SpecResp: the optional interfaces of the wrapped writer
    rwpre,          \* SpecResp: the writer given is already a ResponseLogger
    rwlog,          \* SpecResp: the logger
    rwhist          \* SpecResp: the calls made on the logger

harnessVars == <<encKind, clfEnc, textEnc, ctx, pc, entry, fields, out>>
clfVars == <<cpc, cmsg, cfinal, csup, cbuf>>
jsonVars == <<jbuf, jstack, jcnt, jref, jops>>
escVars == <<es, eoutS, eoutB>>
opsVars == <<okind, obuf, oprev, oerr, oop, ofail, ocnt>>
cloneVars == <<hkind, heap, hfree, horig, hclone, hsib, gorig, gclone, gsnap, hcnt>>
concVars == <<qkind, qheap, qfree, qpc, qbuf, qcall, qidx, qsib>>
cfgVars == <<gcfg, gpc, gmsg, gfs, gdata, gbuf>>
valVars == <<vcfg, vobj, vtxt, vclf, vprev, vop, vseen, vcnt>>
newVars == <<nenv, nopts, nres, nout, nerr, nlogs, nexit>>
traceVars == <<tin, tcur, tfrom, terr, top, tprev, tnew, tout, tback, trnd, tprnd, tcnt,
               mhdr, mreq, mctx, mnext>>
respVars == <<rwcaps, rwpre, rwlog, rwhist>>
vars == <<harnessVars, clfVars, jsonVars, escVars, opsVars, cloneVars, concVars, cfgVars, valVars, newVars, traceVars, respVars>>

\* AppendString / AppendByteString has not run
NotRun == <<-1>>

\* each harness at rest
HarnessIdle ==
    /\ encKind = "clf"
    /\ clfEnc = NewCLFEncoder
    /\ textEnc = NewTextEncoder
    /\ ctx = <<>>
    /\ pc = "ready"
    /\ entry = [msg |-> <<>>, level |-> "info"]
    /\ fields = <<>>
    /\ out = [buf |-> <<>>, err |-> NoErr]

ClfIdle ==
    /\ cpc = "idle"
    /\ cmsg = <<>>
    /\ cfinal = clfFieldsEmpty
    /\ csup = {}
    /\ cbuf = <<>>

JsonIdle ==
    /\ jbuf = <<>>
    /\ jstack = <<>>
    /\ jcnt = <<>>
    /\ jref = <<>>
    /\ jops = 0

EscIdle ==
    /\ es = <<>>
    /\ eoutS = NotRun
    /\ eoutB = NotRun

OpsIdle ==
    /\ okind = "generic"
    /\ obuf = <<>>
    /\ oprev = <<>>
    /\ oerr = NoErr
    /\ oop = "none"
    /\ ofail = FALSE
    /\ ocnt = 0

CloneIdle ==
    /\ hkind = "clf"
    /\ heap = <<NewCLFEncoder>>
    /\ hfree = {}
    /\ horig = 1
    /\ hclone = 0
    /\ hsib = 0
    /\ gorig = NewCLFEncoder
    /\ gclone = <<>>
    /\ gsnap = <<>>
    /\ hcnt = 0

ConcIdle ==
    /\ qkind = "clf"
    /\ qheap = <<>>
    /\ qfree = {}
    /\ qpc = <<>>
    /\ qbuf = <<>>
    /\ qcall = <<>>
    /\ qidx = <<>>
    /\ qsib = <<>>

NilConfig == [EncodeTime |-> "nil", EncodeDuration |-> "nil"]

CfgIdle ==
    /\ gcfg = <<NilConfig, NilConfig>>
    /\ gpc = "idle"
    /\ gmsg = <<>>
    /\ gfs = <<>>
    /\ gdata = <<clfFieldsEmpty, clfFieldsEmpty>>
    /\ gbuf = <<<<>>, <<>>>>

NoFloat == [kind |-> "none", halves |-> 0]
NoTime == [year |-> 0, month |-> 0, day |-> 0, hour |-> 0, min |-> 0, sec |-> 0,
           off |-> 0]
NoValOp == [enc |-> "none", op |-> "none", key |-> <<>>, fval |-> NoFloat,
            tval |-> NoTime]

ValIdle ==
    /\ vcfg = NilConfig
    /\ vobj = <<>>
    /\ vtxt = [buf |-> <<>>, colorStart |-> <<>>]
    /\ vclf = clfFieldsEmpty
    /\ vprev = [obj |-> <<>>, txt |-> [buf |-> <<>>, colorStart |-> <<>>],
                clf |-> clfFieldsEmpty]
    /\ vop = NoValOp
    /\ vseen = NoTime
    /\ vcnt = 0

NewIdle ==
    /\ nenv = [LOG_FORMAT |-> <<>>, LOG_LEVEL |-> <<>>]
    /\ nopts = <<>>
    /\ nres = [logger |-> [encoder |-> "nil", minLogLevel |-> 0, Format |-> <<>>],
               err |-> "not called", ran |-> 0]
    /\ nout = <<>>
    /\ nerr = <<>>
    /\ nlogs = <<>>
    /\ nexit = FALSE

TraceIdle ==
    /\ tin = <<>>
    /\ tcur = [version |-> -1, traceID |-> <<>>, parentID |-> <<>>, traceFlags |-> -1]
    /\ tfrom = "none"
    /\ terr = FALSE
    /\ top = "none"
    /\ tprev = tcur
    /\ tnew = tcur
    /\ tout = <<>>
    /\ tback = [t |-> tcur, err |-> FALSE]
    /\ trnd = <<>>
    /\ tprnd = <<>>
    /\ tcnt = 0
    /\ mhdr = <<>>
    /\ mreq = <<>>
    /\ mctx = tcur
    /\ mnext = 0

RespIdle ==
    /\ rwcaps = {}
    /\ rwpre = FALSE
    /\ rwlog = [kind |-> "nil", chain |-> <<>>, code |-> 0, size |-> 0,
                raw |-> FALSE, response |-> <<>>]
    /\ rwhist = <<>>

(***************************************************************************)
(* The encoder harness: one template encoder (text or CLF) as logging.New  *)
(* builds it, fields pre-bound on it by Clone + AddTo (zap's With), and    *)
(* EncodeEntry called on it, one entry at a time.                          *)
(***************************************************************************)
HarnessInit ==
    /\ encKind \in {"text", "clf"}
    /\ clfEnc = NewCLFEncoder
    /\ textEnc = NewTextEncoder
    /\ ctx = <<>>
    /\ pc = "ready"
    /\ entry = NoEntry
    /\ fields = <<>>
    /\ out = NoOut

\* With(f): the template becomes its carrying clone with f added
With(f) ==
    /\ pc = "ready"
    /\ Len(ctx) < MaxCtx
    /\ clfEnc' = IF encKind = "clf" THEN clfAddTo(clfEncoder_Clone(clfEnc), f)
                 ELSE clfEnc
    /\ textEnc' = IF encKind = "text" THEN textAddTo(textEncoder_Clone(textEnc), f)
                  ELSE textEnc
    /\ ctx' = Append(ctx, f)
    /\ UNCHANGED <<encKind, pc, entry, fields, out>>
    /\ UNCHANGED <<clfVars, jsonVars, escVars, opsVars, cloneVars, concVars, cfgVars, valVars, newVars, traceVars, respVars>>

\* EncodeEntry(ent, fs) on the template
EncodeEntry(ent, fs) ==
    /\ pc = "ready"
    /\ out' = IF encKind = "clf" THEN clfEncoder_EncodeEntry(clfEnc, ent, fs)
              ELSE textEncoder_EncodeEntry(textEnc, ent, fs)
    /\ entry' = ent
    /\ fields' = fs
    /\ pc' = "done"
    /\ UNCHANGED <<encKind, clfEnc, textEnc, ctx>>
    /\ UNCHANGED <<clfVars, jsonVars, escVars, opsVars, cloneVars, concVars, cfgVars, valVars, newVars, traceVars, respVars>>

\* the caller writes the buffer out and frees it
Free ==
    /\ pc = "done"
    /\ pc' = "ready"
    /\ entry' = NoEntry
    /\ fields' = <<>>
    /\ out' = NoOut
    /\ UNCHANGED <<encKind, clfEnc, textEnc, ctx>>
    /\ UNCHANGED <<clfVars, jsonVars, escVars, opsVars, cloneVars, concVars, cfgVars, valVars, newVars, traceVars, respVars>>

HarnessNext ==
    \/ \E f \in CtxPool : With(f)
    \/ \E m \in Msgs, l \in EntryLevels, fs \in FieldLists :
          EncodeEntry([msg |-> m, level |-> l], fs)
    \/ Free

Init == HarnessInit /\ ClfIdle /\ JsonIdle /\ EscIdle /\ OpsIdle /\ CloneIdle /\ ConcIdle /\ CfgIdle /\ ValIdle /\ NewIdle /\ TraceIdle /\ RespIdle
Next == HarnessNext
Spec == Init /\ [][Next]_vars

(***************************************************************************)
(* The encoder harness again, with entries of every level and field lists  *)
(* in which keys repeat, across kinds.                                     *)
(***************************************************************************)
\* {"a":1,"a":2}: an object whose marshaler adds the key "a" twice
DupObject == <<Elem(<<97>>, "Int64", <<>>, 1), Elem(<<97>>, "Int64", <<>>, 2)>>

DupPool == {
    StringField(kStatus, <<111,107>>),                     \* status="ok"
    Int64Field(kStatus, 200),
    ReflectField(kStatus, JsonA1, TRUE),
    StringField(kName, <<115,118,99>>),                    \* name="svc"
    ObjectField(kName, DupObject),
    StringField(kOther, <<118>>),                          \* other="v"
    Int64Field(kOther, 7) }

DupLists == SeqsUpTo(DupPool, MaxFields)

EntryMsgs == { <<>>, <<109>> }

NextEntries ==
    \/ \E f \in CtxPool : With(f)
    \/ \E m \in EntryMsgs, l \in Levels, fs \in DupLists :
          EncodeEntry([msg |-> m, level |-> l], fs)
    \/ Free

SpecEntries == Init /\ [][NextEntries]_vars
(***************************************************************************)
(* clfEncoder.EncodeEntry, one loop iteration per step: the field list is  *)
(* supplied one field at a time, so that every subset of the keys is       *)
(* reached in every order.  The fields supplied so far are kept as a set.  *)
(***************************************************************************)
\* one string field per CLF key, valued "a" .. "k" in the order of clfFields
LetterField(i) == StringField(clfFields[i], <<96 + i>>)

ClfPool ==
    {LetterField(i) : i \in 1..Len(clfFields)}
    \cup { StringField(kUserId, <<97,32,98>>),                 \* user-id="a b"
           StringField(kOther, <<118>>),                       \* other="v"
           ObjectField(kName, <<Elem(<<97>>, "Int64", <<>>, 1)>>) }

ClfMsgs == { <<>>, <<109>> }

\* lines 69-74: the fresh sibling, the buffer, the message line
ClfBegin(m) ==
    /\ cpc = "idle"
    /\ cmsg' = m
    /\ cfinal' = clfEncoder_clone(clfEnc)
    /\ cbuf' = clfWriteMessage(m)
    /\ csup' = {}
    /\ cpc' = "loop"
    /\ UNCHANGED <<harnessVars, jsonVars, escVars, opsVars, cloneVars, concVars, cfgVars, valVars, newVars, traceVars, respVars>>

\* lines 79-81: fields[i].AddTo(final)
ClfField(f) ==
    /\ cpc = "loop"
    /\ cfinal' = clfAddTo(cfinal, f)
    /\ csup' = csup \cup {f}
    /\ UNCHANGED <<cpc, cmsg, cbuf>>
    /\ UNCHANGED <<harnessVars, jsonVars, escVars, opsVars, cloneVars, concVars, cfgVars, valVars, newVars, traceVars, respVars>>

\* lines 75-77 and 83-105: no field, the buffer as it is; else the line
ClfEnd ==
    /\ cpc = "loop"
    /\ cbuf' = IF csup = {} THEN cbuf ELSE clfWriteLine(cbuf, cfinal)
    /\ cpc' = "done"
    /\ UNCHANGED <<cmsg, cfinal, csup>>
    /\ UNCHANGED <<harnessVars, jsonVars, escVars, opsVars, cloneVars, concVars, cfgVars, valVars, newVars, traceVars, respVars>>

ClfFree ==
    /\ cpc = "done"
    /\ cpc' = "idle"
    /\ cmsg' = <<>>
    /\ cfinal' = clfFieldsEmpty
    /\ csup' = {}
    /\ cbuf' = <<>>
    /\ UNCHANGED <<harnessVars, jsonVars, escVars, opsVars, cloneVars, concVars, cfgVars, valVars, newVars, traceVars, respVars>>

ClfNext ==
    \/ \E m \in ClfMsgs : ClfBegin(m)
    \/ \E f \in ClfPool : ClfField(f)
    \/ ClfEnd
    \/ ClfFree

InitCLF == HarnessIdle /\ ClfIdle /\ JsonIdle /\ EscIdle /\ OpsIdle /\ CloneIdle /\ ConcIdle /\ CfgIdle /\ ValIdle /\ NewIdle /\ TraceIdle /\ RespIdle
SpecCLF == InitCLF /\ [][ClfNext]_vars

(***************************************************************************)
(* A marshaler driving the object encoder: genericEncoder.AppendArray or   *)
(* AppendObject opens the root container on a fresh buffer and hands the   *)
(* object encoder to the value's marshaler, which calls Add* (in an        *)
(* object) or Append* (in an array), nested containers included; each      *)
(* container is closed when its marshaler returns.                         *)
(***************************************************************************)
\* deepest nesting of containers
MaxDepth == 2
\* most Add*/Append* calls of one run
MaxJsonOps == 3

JKey == <<107>>         \* "k"
JStr == <<115>>         \* "s"

OpenByte(kind)  == IF kind = "arr" THEN 91 ELSE 123        \* '[' '{'
CloseByte(kind) == IF kind = "arr" THEN 93 ELSE 125        \* ']' '}'

JTop == jstack[Len(jstack)]
JIn(kind) == jstack # <<>> /\ JTop = kind /\ jops < MaxJsonOps

\* the comma the reference puts before an element of the open container
RefSep == IF jcnt[Len(jcnt)] > 0 THEN <<44>> ELSE <<>>

\* "key": as the reference writes it
RefKey(k) == objectEncoder_AppendString(<<>>, k) \o <<58>>

\* one more element in the open container
JCounted == [jcnt EXCEPT ![Len(jcnt)] = @ + 1]

\* genericEncoder.AppendArray / AppendObject, up to the marshaler call
JOpenRoot(kind) ==
    /\ jstack = <<>> /\ jbuf = <<>> /\ jops = 0
    /\ jbuf' = Append(poolGet, OpenByte(kind))
    /\ jref' = <<OpenByte(kind)>>
    /\ jstack' = <<kind>>
    /\ jcnt' = <<0>>
    /\ UNCHANGED jops
    /\ UNCHANGED <<harnessVars, clfVars, escVars, opsVars, cloneVars, concVars, cfgVars, valVars, newVars, traceVars, respVars>>

\* a call that writes a scalar: newBuf is the encoder's buffer after it,
\* body what the reference writes after its separator
JScalar(newBuf, body) ==
    /\ jbuf' = newBuf
    /\ jref' = jref \o RefSep \o body
    /\ jcnt' = JCounted
    /\ jops' = jops + 1
    /\ UNCHANGED jstack
    /\ UNCHANGED <<harnessVars, clfVars, escVars, opsVars, cloneVars, concVars, cfgVars, valVars, newVars, traceVars, respVars>>

JAddString ==
    /\ JIn("obj")
    /\ JScalar(objectEncoder_AddString(jbuf, JKey, JStr),
               RefKey(JKey) \o objectEncoder_AppendString(<<>>, JStr))

JAddInt64 ==
    /\ JIn("obj")
    /\ JScalar(objectEncoder_AddInt64(jbuf, JKey, 1), RefKey(JKey) \o FormatInt(1))

JAppendString ==
    /\ JIn("arr")
    /\ JScalar(objectEncoder_AppendString(jbuf, JStr),
               objectEncoder_AppendString(<<>>, JStr))

JAppendByteString ==
    /\ JIn("arr")
    /\ JScalar(objectEncoder_AppendByteString(jbuf, JStr),
               objectEncoder_AppendString(<<>>, JStr))

JAppendInt64 ==
    /\ JIn("arr")
    /\ JScalar(objectEncoder_AppendInt64(jbuf, 1), FormatInt(1))

JAppendBool ==
    /\ JIn("arr")
    /\ JScalar(objectEncoder_AppendBool(jbuf, TRUE), <<116,114,117,101>>)

\* a call that opens a nested container, up to the marshaler call
JNested(newBuf, lead, kind) ==
    /\ Len(jstack) < MaxDepth
    /\ jbuf' = Append(newBuf, OpenByte(kind))
    /\ jref' = jref \o RefSep \o lead \o <<OpenByte(kind)>>
    /\ jcnt' = Append(JCounted, 0)
    /\ jstack' = Append(jstack, kind)
    /\ jops' = jops + 1
    /\ UNCHANGED <<harnessVars, clfVars, escVars, opsVars, cloneVars, concVars, cfgVars, valVars, newVars, traceVars, respVars>>

\* AddArray / AddObject: addKey, then AppendArray / AppendObject
JAddContainer(kind) ==
    /\ JIn("obj")
    /\ JNested(objectEncoder_addKey(jbuf, JKey), RefKey(JKey), kind)

\* AppendArray / AppendObject as an array element
JAppendContainer(kind) ==
    /\ JIn("arr")
    /\ JNested(jbuf, <<>>, kind)

\* the marshaler of the open container returns
JClose ==
    /\ jstack # <<>>
    /\ jbuf' = Append(jbuf, CloseByte(JTop))
    /\ jref' = Append(jref, CloseByte(JTop))
    /\ jstack' = SubSeq(jstack, 1, Len(jstack) - 1)
    /\ jcnt' = SubSeq(jcnt, 1, Len(jcnt) - 1)
    /\ UNCHANGED jops
    /\ UNCHANGED <<harnessVars, clfVars, escVars, opsVars, cloneVars, concVars, cfgVars, valVars, newVars, traceVars, respVars>>

\* the buffer goes back to the pool
JFree ==
    /\ jstack = <<>> /\ jbuf # <<>>
    /\ jbuf' = <<>>
    /\ jref' = <<>>
    /\ jcnt' = <<>>
    /\ jops' = 0
    /\ UNCHANGED jstack
    /\ UNCHANGED <<harnessVars, clfVars, escVars, opsVars, cloneVars, concVars, cfgVars, valVars, newVars, traceVars, respVars>>

JsonNext ==
    \/ \E kind \in {"arr", "obj"} : JOpenRoot(kind)
    \/ JAddString
    \/ JAddInt64
    \/ JAppendString
    \/ JAppendByteString
    \/ JAppendInt64
    \/ JAppendBool
    \/ \E kind \in {"arr", "obj"} : JAddContainer(kind)
    \/ \E kind \in {"arr", "obj"} : JAppendContainer(kind)
    \/ JClose
    \/ JFree

InitJSON == HarnessIdle /\ ClfIdle /\ JsonIdle /\ EscIdle /\ OpsIdle /\ CloneIdle /\ ConcIdle /\ CfgIdle /\ ValIdle /\ NewIdle /\ TraceIdle /\ RespIdle
SpecJSON == InitJSON /\ [][JsonNext]_vars

(***************************************************************************)
(* The string escaper: AppendString and AppendByteString, each on a fresh  *)
(* buffer, on the same input bytes.                                        *)
(***************************************************************************)
\* longest input built from EscAlphabet
MaxEscLen == 3

\* control bytes, the two escaped printables, a letter; continuation bytes
\* 0x80 0xBF; leading bytes of 2, 3 (plain and 0xED), 4 bytes; 0xFF
EscAlphabet == {1, 10, 34, 92, 97, 128, 191, 195, 226, 237, 240, 255}

EscInputs ==
    SeqsUpTo(EscAlphabet, MaxEscLen)
    \cup {<<b>> : b \in 0..255}
    \cup { <<240,159,152,128>>,       \* U+1F600, four bytes
           <<244,144,128,128>>,       \* above U+10FFFF
           <<224,128,128>>,           \* overlong
           <<239,191,189>>,           \* U+FFFD itself, well formed
           <<97,240,159,152,128,34>> }

EscAppendString ==
    /\ eoutS = NotRun
    /\ eoutS' = objectEncoder_AppendString(poolGet, es)
    /\ UNCHANGED <<es, eoutB>>
    /\ UNCHANGED <<harnessVars, clfVars, jsonVars, opsVars, cloneVars, concVars, cfgVars, valVars, newVars, traceVars, respVars>>

EscAppendByteString ==
    /\ eoutB = NotRun
    /\ eoutB' = objectEncoder_AppendByteString(poolGet, es)
    /\ UNCHANGED <<es, eoutS>>
    /\ UNCHANGED <<harnessVars, clfVars, jsonVars, opsVars, cloneVars, concVars, cfgVars, valVars, newVars, traceVars, respVars>>

EscNext ==
    \/ EscAppendString
    \/ EscAppendByteString

InitEsc ==
    /\ HarnessIdle /\ ClfIdle /\ JsonIdle /\ OpsIdle /\ CloneIdle /\ ConcIdle /\ CfgIdle /\ ValIdle /\ NewIdle /\ TraceIdle /\ RespIdle
    /\ es \in EscInputs
    /\ eoutS = NotRun
    /\ eoutB = NotRun
SpecEsc == InitEsc /\ [][EscNext]_vars

(***************************************************************************)
(* Claims about EncodeEntry, checked under Spec.                           *)
(***************************************************************************)
Done(kind) == pc = "done" /\ encKind = kind

\* no newline byte in the message nor in any key or value of the fields
NoNewlineIn(fs) ==
    \A i \in 1..Len(fs) :
        /\ ~HasByte(fs[i].key, 10)
        /\ ~HasByte(fs[i].str, 10)
        /\ \A j \in 1..Len(fs[i].elems) :
              ~HasByte(fs[i].elems[j].ekey, 10) /\ ~HasByte(fs[i].elems[j].estr, 10)

CleanEntry == ~HasByte(entry.msg, 10) /\ NoNewlineIn(fields)

\* - - - - - - "- - -" - -\n
AllDashesLine ==
    <<45,32,45,32,45,32,45,32,45,32,45,32,34,45,32,45,32,45,34,32,45,32,45,10>>

\* C2 as stated: every EncodeEntry call, on the text and on the CLF encoder,
\* returns a buffer with exactly one '\n', and it is the last byte.
C2_ExactlyOneRecord ==
    pc = "done" =>
        /\ CountByte(out.buf, 10) = 1
        /\ out.buf[Len(out.buf)] = 10

\* C2 amended: the text encoder's buffer always ends in '\n', its only one
\* when message, keys and values hold none; the CLF encoder's buffer holds
\* one '\n'-terminated line for a non-empty message plus one for a non-empty
\* field list (none, one or two lines), so exactly one record only when
\* exactly one of the two is present.
C2_RecordsPerEncoder ==
    /\ Done("text") =>
          /\ out.buf # <<>> /\ out.buf[Len(out.buf)] = 10
          /\ CleanEntry => CountByte(out.buf, 10) = 1
    /\ Done("clf") =>
          /\ out.buf # <<>> => out.buf[Len(out.buf)] = 10
          /\ (entry.msg = <<>> /\ fields = <<>>) => out.buf = <<>>
          /\ CleanEntry =>
                CountByte(out.buf, 10) =
                    (IF entry.msg # <<>> THEN 1 ELSE 0)
                  + (IF fields # <<>> THEN 1 ELSE 0)

\* a CLF call with a message and fields: two lines
C2_Witness ==
    /\ Done("clf") /\ CleanEntry
    /\ entry.msg # <<>> /\ fields # <<>>
    /\ CountByte(out.buf, 10) = 2

\* C3 as stated: every field added to the encoder before EncodeEntry (on a
\* carrying clone, as pre-bound context) appears in the record EncodeEntry
\* produces: as key=value in the text record, as the key's column in the
\* CLF record.
FieldAppears(f, buf) ==
    IF encKind = "text"
    THEN Contains(buf, f.key) /\ Contains(buf, <<61>> \o f.str)
    ELSE clfFieldsMapHas(f.key) => Contains(buf, f.str)

C3_ContextEncoded ==
    pc = "done" => \A i \in 1..Len(ctx) : FieldAppears(ctx[i], out.buf)

\* C4 as stated: on the CLF encoder an object, array or reflected field
\* inserted at any position of any field list F (empty or not) leaves the
\* bytes EncodeEntry returns unchanged, and no error is returned.
C4_StructuredIsNoOp ==
    Done("clf") =>
        /\ out.err = NoErr
        /\ \A p \in 1..Len(fields) :
              IsStructured(fields[p]) =>
                  out = clfEncoder_EncodeEntry(clfEnc, entry, RemoveAt(fields, p))

\* C4 amended: the same for every non-empty F; inserted into the empty list
\* the field makes EncodeEntry emit the all-dashes column line, which the
\* empty list does not get.
C4_StructuredIsNoOpNonEmpty ==
    Done("clf") =>
        /\ out.err = NoErr
        /\ \A p \in 1..Len(fields) :
              IsStructured(fields[p]) =>
                  IF Len(fields) >= 2
                  THEN out = clfEncoder_EncodeEntry(clfEnc, entry, RemoveAt(fields, p))
                  ELSE /\ out.buf = clfWriteMessage(entry.msg) \o AllDashesLine
                       /\ clfEncoder_EncodeEntry(clfEnc, entry, <<>>).buf
                              = clfWriteMessage(entry.msg)

\* a structured field on a known key, next to a scalar field
C4_Witness ==
    /\ Done("clf") /\ Len(fields) >= 2
    /\ \E p \in 1..Len(fields) :
          IsStructured(fields[p]) /\ clfFieldsMapHas(fields[p].key)
    /\ \E p \in 1..Len(fields) : fields[p].type = "String"

\* C5: CLF encoder, zero fields and a non-empty message: the output is the
\* message followed by '\n' and nothing else.
C5_MessageOnly ==
    (Done("clf") /\ fields = <<>> /\ entry.msg # <<>>) =>
        /\ out.buf = entry.msg \o <<10>>
        /\ out.err = NoErr

C5_Witness ==
    Done("clf") /\ fields = <<>> /\ entry.msg # <<>> /\ out.buf # <<>>

\* the bytes before the message field: <color><LEVEL-NAME><reset>
LevelPrefix == LevelColor(entry.level) \o LevelName(entry.level) \o colorEnd

\* C10 as stated: after <color><LEVEL-NAME><reset> the message occupies a
\* fixed 44-column field: padded with spaces when shorter, truncated to 44
\* when longer.
C10_FixedWidthMessage ==
    Done("text") =>
        LET p == Len(LevelPrefix)
            m == entry.msg
            field == IF RuneCountInString(m) <= MsgWidth
                     THEN m \o Repeat(<<32>>, MsgWidth - RuneCountInString(m))
                     ELSE SubSeq(m, 1, MsgWidth)
        IN  SubSeq(out.buf, 1, p + Len(field) + 2)
                = LevelPrefix \o <<32>> \o field \o <<32>>

\* C10 amended: the message is written in full, left-justified, and padded
\* with spaces to 44 characters when it is shorter; a longer message is not
\* truncated.
C10_PaddedMessage ==
    Done("text") =>
        LET p   == Len(LevelPrefix)
            m   == entry.msg
            w   == RuneCountInString(m)
            pad == IF w < MsgWidth THEN MsgWidth - w ELSE 0
            b   == out.buf
        IN  /\ SubSeq(b, 1, p) = LevelPrefix
            /\ b[p + 1] = 32
            /\ SubSeq(b, p + 2, p + 1 + Len(m)) = m
            /\ \A i \in (p + 2 + Len(m))..(p + 1 + Len(m) + pad) : b[i] = 32
            /\ b[p + 2 + Len(m) + pad] = 32

\* a message longer than the field went through the text encoder
C10_Witness ==
    Done("text") /\ RuneCountInString(entry.msg) > MsgWidth


(***************************************************************************)
(* Claims about the CLF column line, checked under SpecCLF.                *)
(***************************************************************************)
\* the message line that precedes the column line
CMsgLine == IF cmsg = <<>> THEN <<>> ELSE cmsg \o <<10>>

\* what follows the message line in the buffer
CColumnLine == SubSeq(cbuf, Len(CMsgLine) + 1, Len(cbuf))

\* a line without its final '\n'
Chomp(line) ==
    IF line # <<>> /\ line[Len(line)] = 10 THEN SubSeq(line, 1, Len(line) - 1)
    ELSE line

SpacePos(t) == {i \in 1..Len(t) : t[i] = 32}

\* the position of the k-th space of t
NthSpace(t, k) ==
    CHOOSE i \in SpacePos(t) : Cardinality({j \in SpacePos(t) : j < i}) = k - 1

\* the space-separated columns of a line: none for the empty line
NumCols(line) == IF line = <<>> THEN 0 ELSE Cardinality(SpacePos(Chomp(line))) + 1

Col(line, k) ==
    LET t  == Chomp(line)
        n  == Cardinality(SpacePos(t))
        lo == IF k = 1 THEN 1 ELSE NthSpace(t, k - 1) + 1
        hi == IF k = n + 1 THEN Len(t) ELSE NthSpace(t, k) - 1
    IN  SubSeq(t, lo, hi)

\* the value of logical column k: the quotes around columns 7..9 are not part of it
ColValue(line, k) ==
    LET c == Col(line, k)
    IN  IF k = 7 THEN Tail(c)
        ELSE IF k = 9 THEN SubSeq(c, 1, Len(c) - 1)
        ELSE c

KeySupplied(k) == \E f \in csup : f.key = k

OnlyKnownKeys == \A f \in csup : clfFieldsMapHas(f.key)

\* no supplied value holds a space, a double quote or a newline
ColumnSafeValues ==
    \A f \in csup : ~HasByte(f.str, 32) /\ ~HasByte(f.str, 34) /\ ~HasByte(f.str, 10)

\* C1 as stated: for any subset of the eleven known keys, in any order, the
\* output holds exactly 11 logical columns and every key that was not
\* supplied is rendered as "-".
C1_AlwaysElevenColumns ==
    (cpc = "done" /\ OnlyKnownKeys) =>
        /\ NumCols(CColumnLine) = 11
        /\ \A k \in 1..11 :
              ~KeySupplied(clfFields[k]) => ColValue(CColumnLine, k) = <<45>>

\* C1 amended: for any non-empty list of fields over the eleven known keys,
\* in any order, whose values hold no space, double quote or newline, the
\* column line holds exactly 11 columns, the quoted method/path/protocol
\* group counting as three (columns 7 to 9, the quotes opening column 7 and
\* closing column 9), and every key that was not supplied is rendered as "-".
C1_ElevenColumnsNonEmpty ==
    (cpc = "done" /\ OnlyKnownKeys /\ csup # {} /\ ColumnSafeValues) =>
        /\ cbuf[Len(cbuf)] = 10
        /\ NumCols(CColumnLine) = 11
        /\ Head(Col(CColumnLine, 7)) = 34
        /\ Col(CColumnLine, 9)[Len(Col(CColumnLine, 9))] = 34
        /\ \A k \in 1..11 : ~HasByte(ColValue(CColumnLine, k), 34)
        /\ \A k \in 1..11 :
              ~KeySupplied(clfFields[k]) => ColValue(CColumnLine, k) = <<45>>

\* all eleven keys were supplied
C1_Witness ==
    /\ cpc = "done" /\ OnlyKnownKeys /\ ColumnSafeValues
    /\ \A k \in 1..11 : KeySupplied(clfFields[k])
    /\ NumCols(CColumnLine) = 11

\* the slots of the line as the claim orders them
ClaimSlots == <<
    <<114,101,113,117,101,115,116,45,105,100>>,                  \* request-id
    <<114,101,109,111,116,101,45,97,100,100,114,101,115,115>>,   \* remote-address
    <<110,97,109,101>>,                                          \* name
    <<117,115,101,114,45,105,100>>,                              \* user-id
    <<116,105,109,101>>,                                         \* time
    <<100,117,114,97,116,105,111,110>>,                          \* duration
    <<109,101,116,104,111,100>>,                                 \* method
    <<112,97,116,104>>,                                          \* path
    <<112,114,111,116,111,99,111,108>>,                          \* protocol
    <<115,116,97,116,117,115>>,                                  \* status
    <<115,105,122,101>> >>                                       \* size

\* the values a slot may show: one a supplied scalar field gave it, else "-"
SlotValues(k) ==
    LET given == {f.str : f \in {g \in csup : g.key = ClaimSlots[k] /\ g.type = "String"}}
    IN  IF given = {} THEN {<<45>>} ELSE given

\* what precedes slot k on the line
SlotLead(k) ==
    IF k = 1 THEN <<>> ELSE IF k = 7 THEN <<32, 34>> ELSE IF k = 10 THEN <<34, 32>>
    ELSE <<32>>

\* the lines the claim allows, built slot by slot
RECURSIVE LinesUpTo(_)
LinesUpTo(k) ==
    IF k = 0 THEN {<<>>}
    ELSE {l \o SlotLead(k) \o v : l \in LinesUpTo(k - 1), v \in SlotValues(k)}

\* C6: whenever at least one field was supplied, known key or not, the
\* output is the (optional) message line followed by
\*   <request-id> <remote-address> <name> <user-id> <time> <duration>
\*   "<method> <path> <protocol>" <status> <size>\n
\* with the slots in that order whatever the order of the fields, and "-"
\* in every slot no field set.
C6_FullLineFixedOrder ==
    (cpc = "done" /\ csup # {}) =>
        \E l \in LinesUpTo(11) : cbuf = CMsgLine \o l \o <<10>>

\* only unknown keys were supplied, and the all-dashes line came out
C6_Witness ==
    /\ cpc = "done" /\ csup # {}
    /\ \A f \in csup : ~clfFieldsMapHas(f.key)
    /\ cbuf = CMsgLine \o AllDashesLine


(***************************************************************************)
(* Claims about the object encoder, checked under SpecJSON and SpecEsc.    *)
(***************************************************************************)
\* C7 as stated: whatever the sequence of Add*/Append* calls, nested
\* AppendArray/AppendObject included, any two consecutive elements of the
\* same object or array (keyed members and array elements of every kind)
\* are separated by exactly one comma, with none after an opening bracket
\* or before a closing one: the buffer is the reference rendering.
C7_OneCommaBetweenElements == jbuf = jref

\* ---- the escaper ----
IsHexLower(b) == (48 <= b /\ b <= 57) \/ (97 <= b /\ b <= 102)

\* RFC 3629: the length of the well-formed UTF-8 sequence at the head of s,
\* 0 when there is none (stated on the code point, not on byte tables)
WellFormedLen(s) ==
    LET n  == Len(s)
        b0 == s[1]
        c(i) == s[i] % 64
        cont(i) == i <= n /\ s[i] \div 64 = 2
        cp2 == (b0 % 32) * 64 + c(2)
        cp3 == (b0 % 16) * 4096 + c(2) * 64 + c(3)
        cp4 == (b0 % 8) * 262144 + c(2) * 4096 + c(3) * 64 + c(4)
    IN  IF n = 0 THEN 0
        ELSE IF b0 < 128 THEN 1
        ELSE IF b0 \div 32 = 6 /\ cont(2) /\ cp2 >= 128 THEN 2
        ELSE IF b0 \div 16 = 14 /\ cont(2) /\ cont(3) /\ cp3 >= 2048
                /\ ~(55296 <= cp3 /\ cp3 <= 57343) THEN 3
        ELSE IF b0 \div 8 = 30 /\ cont(2) /\ cont(3) /\ cont(4)
                /\ cp4 >= 65536 /\ cp4 <= 1114111 THEN 4
        ELSE 0

\* what the claim says one input position turns into: [text, used]
EscapedAt(s) ==
    LET b == s[1]
        w == WellFormedLen(s)
    IN  IF b < 128
        THEN [used |-> 1,
              text |-> IF b = 92 THEN <<92, 92>>
                       ELSE IF b = 34 THEN <<92, 34>>
                       ELSE IF b = 10 THEN <<92, 110>>
                       ELSE IF b = 13 THEN <<92, 114>>
                       ELSE IF b = 9 THEN <<92, 116>>
                       ELSE IF b < 32
                            THEN <<92, 117, 48, 48, _hex[(b \div 16) + 1],
                                   _hex[(b % 16) + 1]>>
                       ELSE <<b>>]
        ELSE IF w = 0 THEN [used |-> 1, text |-> <<92,117,102,102,102,100>>]
        ELSE [used |-> w, text |-> SubSeq(s, 1, w)]

RECURSIVE ClaimedEscape(_)
ClaimedEscape(s) ==
    IF s = <<>> THEN <<>>
    ELSE LET e == EscapedAt(s)
         IN  e.text \o ClaimedEscape(SubSeq(s, e.used + 1, Len(s)))

\* the text between the quotes of a quoted string
Unquoted(q) == SubSeq(q, 2, Len(q) - 1)

\* no raw control byte, no double quote, and every backslash starts one of
\* the escapes \\ \" \n \r \t \uXXXX
RECURSIVE FullyEscaped(_)
FullyEscaped(t) ==
    IF t = <<>> THEN TRUE
    ELSE IF Head(t) < 32 \/ Head(t) = 34 THEN FALSE
    ELSE IF Head(t) # 92 THEN FullyEscaped(Tail(t))
    ELSE IF Len(t) < 2 THEN FALSE
    ELSE IF t[2] \in {92, 34, 110, 114, 116} THEN FullyEscaped(SubSeq(t, 3, Len(t)))
    ELSE IF t[2] = 117 /\ Len(t) >= 6 /\ \A i \in 3..6 : IsHexLower(t[i])
         THEN FullyEscaped(SubSeq(t, 7, Len(t)))
    ELSE FALSE

EscDone == eoutS # NotRun /\ eoutB # NotRun

\* C8: AppendString (safeAppendString) and AppendByteString
\* (safeAddByteString) write the same bytes: ASCII >= 0x20 other than
\* backslash and double quote verbatim; backslash, double quote, \n, \r, \t
\* as two-character escapes; other bytes below 0x20 as \u00XX in lower-case
\* hex; each byte starting no well-formed UTF-8 sequence as the six
\* characters backslash-u-f-f-f-d, one
\* input byte at a time; well-formed multi-byte sequences verbatim.  The
\* output holds no raw control byte, no unescaped quote or backslash.
C8_EscaperRule ==
    /\ eoutS # NotRun =>
          /\ Head(eoutS) = 34 /\ eoutS[Len(eoutS)] = 34
          /\ Unquoted(eoutS) = ClaimedEscape(es)
          /\ FullyEscaped(Unquoted(eoutS))
    /\ eoutB # NotRun =>
          /\ Unquoted(eoutB) = ClaimedEscape(es)
          /\ FullyEscaped(Unquoted(eoutB))
    /\ EscDone => eoutS = eoutB

\* a control byte and an ill-formed byte went through both escapers
C8_Witness ==
    /\ EscDone
    /\ \E i \in 1..Len(es) : es[i] < 32 /\ es[i] \notin {9, 10, 13}
    /\ \E i \in 1..Len(es) : es[i] >= 128
    /\ Contains(eoutS, <<92,117,102,102,102,100>>)
    /\ Contains(eoutB, <<92,117,48,48>>)


\* ---- a JSON string parser (RFC 8259, section 7) ----
ParseError == <<-2>>

HexVal(b) ==
    IF 48 <= b /\ b <= 57 THEN b - 48
    ELSE IF 97 <= b /\ b <= 102 THEN b - 87
    ELSE IF 65 <= b /\ b <= 70 THEN b - 55
    ELSE -1

\* the UTF-8 encoding of a code point of the basic plane
EncodeRune(cp) ==
    IF cp < 128 THEN <<cp>>
    ELSE IF cp < 2048 THEN <<192 + (cp \div 64), 128 + (cp % 64)>>
    ELSE <<224 + (cp \div 4096), 128 + ((cp \div 64) % 64), 128 + (cp % 64)>>

\* x followed by the parse of the rest, unless that failed
Then(x, rest) == IF rest = ParseError THEN ParseError ELSE x \o rest

\* the characters between the quotes
RECURSIVE JsonChars(_)
JsonChars(t) ==
    IF t = <<>> THEN <<>>
    ELSE LET b == Head(t)
             after(n) == JsonChars(SubSeq(t, n + 1, Len(t)))
         IN  IF b < 32 \/ b = 34 THEN ParseError
             ELSE IF b = 92
                  THEN IF Len(t) < 2 THEN ParseError
                       ELSE IF t[2] \in {34, 92, 47} THEN Then(<<t[2]>>, after(2))
                       ELSE IF t[2] = 98  THEN Then(<<8>>, after(2))
                       ELSE IF t[2] = 102 THEN Then(<<12>>, after(2))
                       ELSE IF t[2] = 110 THEN Then(<<10>>, after(2))
                       ELSE IF t[2] = 114 THEN Then(<<13>>, after(2))
                       ELSE IF t[2] = 116 THEN Then(<<9>>, after(2))
                       ELSE IF t[2] = 117 /\ Len(t) >= 6
                               /\ \A i \in 3..6 : HexVal(t[i]) >= 0
                            THEN LET cp == HexVal(t[3]) * 4096 + HexVal(t[4]) * 256
                                           + HexVal(t[5]) * 16 + HexVal(t[6])
                                 IN  IF 55296 <= cp /\ cp <= 57343 THEN ParseError
                                     ELSE Then(EncodeRune(cp), after(6))
                       ELSE ParseError
             ELSE LET w == WellFormedLen(t)
                  IN  IF w = 0 THEN ParseError
                      ELSE Then(SubSeq(t, 1, w), after(w))

JsonParseString(q) ==
    IF Len(q) < 2 \/ Head(q) # 34 \/ q[Len(q)] # 34 THEN ParseError
    ELSE JsonChars(Unquoted(q))

\* s with each byte that starts no well-formed sequence replaced by U+FFFD
RECURSIVE Normalized(_)
Normalized(s) ==
    IF s = <<>> THEN <<>>
    ELSE LET w == WellFormedLen(s)
         IN  IF w = 0 THEN <<239,191,189>> \o Normalized(Tail(s))
             ELSE SubSeq(s, 1, w) \o Normalized(SubSeq(s, w + 1, Len(s)))

\* C9: the quoted output of the escaper parses back, by a JSON string
\* parser, to the input; to the input with each ill-formed byte replaced by
\* U+FFFD when the input is not well-formed UTF-8.
C9_EscaperRoundTrip ==
    /\ eoutS # NotRun =>
          /\ JsonParseString(eoutS) = Normalized(es)
          /\ Normalized(es) = es => JsonParseString(eoutS) = es
    /\ eoutB # NotRun => JsonParseString(eoutB) = Normalized(es)

\* an input with a quote or backslash and an ill-formed byte came back
\* normalized
C9_Witness ==
    /\ eoutS # NotRun
    /\ \E i \in 1..Len(es) : es[i] \in {34, 92}
    /\ Normalized(es) # es
    /\ JsonParseString(eoutS) = Normalized(es)

(***************************************************************************)
(* Claims about the fields of a text record, checked under Spec.           *)
(***************************************************************************)
\* the message field as C10 has it: a space, the message, the padding to
\* MsgWidth characters, a space
MessageField(m) ==
    LET w == RuneCountInString(m)
    IN  <<32>> \o m \o Repeat(<<32>>, IF w < MsgWidth THEN MsgWidth - w ELSE 0)
               \o <<32>>

\* a key as the line shows it: in the colour of the entry's level
ShownKey(level, key) == LevelColor(level) \o key \o colorEnd

\* the value of a field by the raw conversion: the string's bytes, the
\* integer in decimal, the serializer's bytes of a reflected value, the
\* bracketed members of an object or array
RawValue(f) ==
    CASE f.type = "String"  -> f.str
      [] f.type = "Int64"   -> FormatInt(f.num)
      [] f.type = "Reflect" -> f.str
      [] f.type = "Object"  -> genericEncoder_AppendObject(<<>>, f.elems).buf
      [] f.type = "Array"   -> genericEncoder_AppendArray(<<>>, f.elems).buf

\* key=value of each field in arrival order, one space after each
RECURSIVE KeyValueFields(_, _)
KeyValueFields(level, fs) ==
    IF fs = <<>> THEN <<>>
    ELSE ShownKey(level, Head(fs).key) \o <<61>> \o RawValue(Head(fs)) \o <<32>>
            \o KeyValueFields(level, Tail(fs))

Serializes(f) == f.type = "Reflect" => f.ok

\* C11 as stated: the text record is the level, the message field, then
\* every supplied field of every kind, reflected fields included, as key,
\* '=', raw value, in arrival order, a single space after each, then '\n'
\* (for field lists whose values all serialize).
C11_FieldsAsKeyValue ==
    (Done("text") /\ \A i \in 1..Len(fields) : Serializes(fields[i])) =>
        out.buf = LevelPrefix \o MessageField(entry.msg)
                      \o KeyValueFields(entry.level, fields) \o <<10>>

\* what EncodeEntry returns after the level and the message field
AfterMessage(buf, ent) ==
    SubSeq(buf, Len(LevelColor(ent.level) \o LevelName(ent.level) \o colorEnd
                    \o MessageField(ent.msg)) + 1, Len(buf))

\* t is the end of s
EndsWith(s, t) ==
    Len(t) <= Len(s) /\ SubSeq(s, Len(s) - Len(t) + 1, Len(s)) = t

\* C14: when a field of the list fails to serialize, EncodeEntry of the text
\* encoder still returns a buffer and no error, the record ends in '\n',
\* and it ends with the fields after the failing one exactly as EncodeEntry
\* renders them, in order, when they are the whole list.
C14_BadFieldKeepsRest ==
    Done("text") =>
        \A i \in 1..Len(fields) :
            ~Serializes(fields[i]) =>
                /\ out.err = NoErr
                /\ out.buf # <<>> /\ out.buf[Len(out.buf)] = 10
                /\ EndsWith(out.buf,
                       AfterMessage(
                           textEncoder_EncodeEntry(textEnc, entry,
                               SubSeq(fields, i + 1, Len(fields))).buf, entry))

\* a failing field followed by a field that serializes
C14_Witness ==
    /\ Done("text") /\ Len(fields) >= 2
    /\ ~Serializes(fields[1]) /\ fields[2].type = "Int64"
    /\ Contains(out.buf, <<61>> \o FormatInt(fields[2].num) \o <<32, 10>>)

(***************************************************************************)
(* Claims about levels and repeated keys, checked under SpecEntries.       *)
(***************************************************************************)
\* the colour the claim gives a level: A, B, C are blue, yellow, red
ClaimColor(level) ==
    IF level \in {"debug", "info"} THEN blue
    ELSE IF level = "warn" THEN yellow
    ELSE red

\* C12: the text record starts with colour A for debug and info, B for
\* warn, C for error, dpanic, panic and fatal, followed by the level name
\* and the reset code; A, B and C are distinct; this holds for every
\* message, every field list, every pre-bound context and after any
\* earlier entries encoded through the same encoder.
C12_LevelColorFixed ==
    /\ blue # yellow /\ yellow # red /\ blue # red
    /\ Done("text") =>
          /\ entry.level \in Levels
          /\ SubSeq(out.buf, 1, Len(ClaimColor(entry.level))
                                 + Len(LevelName(entry.level)) + Len(colorEnd))
                = ClaimColor(entry.level) \o LevelName(entry.level) \o colorEnd

\* a dpanic entry with fields, encoded on a template with pre-bound context
C12_Witness ==
    /\ Done("text") /\ entry.level = "dpanic" /\ fields # <<>> /\ ctx # <<>>
    /\ SubSeq(out.buf, 1, Len(red)) = red

\* "a":1,"a":2 ... : the members of an object, one comma between neighbours
RECURSIVE JsonMembers(_)
JsonMembers(ms) ==
    IF ms = <<>> THEN <<>>
    ELSE <<34>> \o Head(ms).ekey \o <<34, 58>> \o FormatInt(Head(ms).enum)
            \o (IF Len(ms) > 1 THEN <<44>> ELSE <<>>) \o JsonMembers(Tail(ms))

\* what the text record holds for one field: key=value, the members of an
\* object in braces in the order its marshaler added them; a reflected
\* value is written without its key
EmittedText(level, f) ==
    CASE f.type = "String"  -> ShownKey(level, f.key) \o <<61>> \o f.str
      [] f.type = "Int64"   -> ShownKey(level, f.key) \o <<61>> \o FormatInt(f.num)
      [] f.type = "Object"  -> ShownKey(level, f.key) \o <<61, 123>>
                                   \o JsonMembers(f.elems) \o <<125>>
      [] f.type = "Reflect" -> f.str

RECURSIVE EmittedFields(_, _)
EmittedFields(level, fs) ==
    IF fs = <<>> THEN <<>>
    ELSE EmittedText(level, Head(fs)) \o <<32>> \o EmittedFields(level, Tail(fs))

\* the text record holds every field, a repeated key as often as it was
\* supplied, in arrival order; so does an object for the keys its
\* marshaler adds
BothEmitted ==
    Done("text") =>
        AfterMessage(out.buf, entry) = EmittedFields(entry.level, fields) \o <<10>>

SameKey(p, q) == p < q /\ fields[p].key = fields[q].key

\* C18 as stated: the JSON-shaped and text encoders emit both fields of a
\* repeated key in arrival order; on the CLF encoder the field supplied
\* last wins whatever the kinds of the two: the earlier field has no effect
\* on the record.
C18_LastFieldWins ==
    /\ BothEmitted
    /\ Done("clf") =>
          \A p, q \in 1..Len(fields) :
              SameKey(p, q) =>
                  out = clfEncoder_EncodeEntry(clfEnc, entry, RemoveAt(fields, p))

\* C18 amended: on the CLF encoder the last field that is not an object,
\* array or reflected value wins: an earlier field of the same key has no
\* effect when a later one is a scalar, and the column then holds that
\* scalar's text; a later object, array or reflected field leaves the
\* column as the earlier field wrote it.
C18_LastScalarWins ==
    /\ BothEmitted
    /\ Done("clf") =>
          \A p, q \in 1..Len(fields) :
              SameKey(p, q) =>
                  IF ~IsStructured(fields[q])
                  THEN /\ out = clfEncoder_EncodeEntry(clfEnc, entry,
                                                       RemoveAt(fields, p))
                       /\ (/\ clfFieldsMapHas(fields[q].key)
                           /\ \A r \in 1..Len(fields) : ~SameKey(q, r)) =>
                              Contains(out.buf, RawValue(fields[q]))
                  ELSE out = clfEncoder_EncodeEntry(clfEnc, entry,
                                                    RemoveAt(fields, q))

\* two scalar fields of different kinds and values on one CLF column
C18_Witness ==
    /\ Done("clf") /\ Len(fields) = 2
    /\ fields[1].type = "Int64" /\ fields[2].type = "String"
    /\ fields[1].key = kStatus /\ fields[2].key = kStatus
    /\ Contains(out.buf, fields[2].str)
    /\ ~Contains(out.buf, FormatInt(fields[1].num))

(***************************************************************************)
(* Single Add* and Append* calls on the generic encoder, the object        *)
(* encoder or the text encoder (which embeds the generic encoder), one     *)
(* after the other on the same buffer.                                     *)
(***************************************************************************)
\* most calls of one run
MaxOps == 2

OpsReflected == { ReflectField(JKey, JsonA1, TRUE), ReflectField(JKey, <<>>, FALSE) }
OpsElems == { <<>>, <<Elem(<<97>>, "Int64", <<>>, 1)>> }

\* the text encoder on the buffer
OpsText == [buf |-> obuf, colorStart |-> <<>>]

\* a call returned r = [buf, err]
OpsStep(name, r, failed) ==
    /\ ocnt < MaxOps
    /\ oprev' = obuf
    /\ obuf' = r.buf
    /\ oerr' = r.err
    /\ oop' = name
    /\ ofail' = failed
    /\ ocnt' = ocnt + 1
    /\ UNCHANGED okind
    /\ UNCHANGED <<harnessVars, clfVars, jsonVars, escVars, cloneVars, concVars, cfgVars, valVars, newVars, traceVars, respVars>>

\* a text encoder call returned t = [enc, err]
OfText(t) == [buf |-> t.enc.buf, err |-> t.err]

OpsAddReflected(f) ==
    /\ okind \in {"object", "text"}
    /\ OpsStep("AddReflected",
               IF okind = "object" THEN objectEncoder_AddReflected(obuf, f.key, f)
               ELSE OfText(textEncoder_AddReflected(OpsText, f.key, f)),
               ~f.ok)

OpsAppendReflected(f) ==
    OpsStep("AppendReflected",
            IF okind = "object" THEN objectEncoder_AppendReflected(obuf, f)
            ELSE genericEncoder_AppendReflected(obuf, f),
            ~f.ok)

OpsAddString ==
    /\ okind \in {"object", "text"}
    /\ OpsStep("AddString",
               [buf |-> IF okind = "object"
                        THEN objectEncoder_AddString(obuf, JKey, JStr)
                        ELSE textEncoder_AddString(OpsText, JKey, JStr).buf,
                err |-> NoErr],
               FALSE)

OpsAddInt64 ==
    /\ okind \in {"object", "text"}
    /\ OpsStep("AddInt64",
               [buf |-> IF okind = "object"
                        THEN objectEncoder_AddInt64(obuf, JKey, 1)
                        ELSE textEncoder_AddInt64(OpsText, JKey, 1).buf,
                err |-> NoErr],
               FALSE)

OpsAppendString ==
    OpsStep("AppendString",
            [buf |-> IF okind = "object" THEN objectEncoder_AppendString(obuf, JStr)
                     ELSE genericEncoder_AppendString(obuf, JStr),
             err |-> NoErr],
            FALSE)

OpsAppendInt64 ==
    OpsStep("AppendInt64",
            [buf |-> IF okind = "object" THEN objectEncoder_AppendInt64(obuf, 1)
                     ELSE genericEncoder_AppendInt64(obuf, 1),
             err |-> NoErr],
            FALSE)

OpsAddArray(elems) ==
    /\ okind \in {"object", "text"}
    /\ OpsStep("AddArray",
               IF okind = "object" THEN objectEncoder_AddArray(obuf, JKey, elems)
               ELSE OfText(textEncoder_AddArray(OpsText, JKey, elems)),
               FALSE)

OpsAddObject(elems) ==
    /\ okind \in {"object", "text"}
    /\ OpsStep("AddObject",
               IF okind = "object" THEN objectEncoder_AddObject(obuf, JKey, elems)
               ELSE OfText(textEncoder_AddObject(OpsText, JKey, elems)),
               FALSE)

OpsAppendArray(elems) ==
    OpsStep("AppendArray",
            IF okind = "object" THEN objectEncoder_AppendArray(obuf, elems)
            ELSE genericEncoder_AppendArray(obuf, elems),
            FALSE)

OpsAppendObject(elems) ==
    OpsStep("AppendObject",
            IF okind = "object" THEN objectEncoder_AppendObject(obuf, elems)
            ELSE genericEncoder_AppendObject(obuf, elems),
            FALSE)

OpsNext ==
    \/ \E f \in OpsReflected : OpsAddReflected(f)
    \/ \E f \in OpsReflected : OpsAppendReflected(f)
    \/ OpsAddString
    \/ OpsAddInt64
    \/ OpsAppendString
    \/ OpsAppendInt64
    \/ \E elems \in OpsElems : OpsAddArray(elems)
    \/ \E elems \in OpsElems : OpsAddObject(elems)
    \/ \E elems \in OpsElems : OpsAppendArray(elems)
    \/ \E elems \in OpsElems : OpsAppendObject(elems)

InitOps ==
    /\ HarnessIdle /\ ClfIdle /\ JsonIdle /\ EscIdle /\ CloneIdle /\ ConcIdle /\ CfgIdle /\ ValIdle /\ NewIdle /\ TraceIdle /\ RespIdle
    /\ okind \in {"generic", "object", "text"}
    /\ obuf = poolGet
    /\ oprev = <<>>
    /\ oerr = NoErr
    /\ oop = "none"
    /\ ofail = FALSE
    /\ ocnt = 0
SpecOps == InitOps /\ [][OpsNext]_vars

ReflectedOps == {"AddReflected", "AppendReflected"}

\* C13: on the generic, object and text encoders, AddReflected and
\* AppendReflected return the serializer's error when it fails and then
\* leave the buffer byte for byte as it was; they return no error when it
\* succeeds, and no other Add* or Append* call returns an error.
C13_ReflectedFailurePropagated ==
    /\ (oop \in ReflectedOps /\ ofail) => (oerr = MarshalErr /\ obuf = oprev)
    /\ (oop \in ReflectedOps /\ ~ofail) => oerr = NoErr
    /\ oop \notin ReflectedOps => oerr = NoErr
    /\ oerr # NoErr => (oop \in ReflectedOps /\ ofail)

\* AddReflected failed on an object encoder whose buffer already held bytes
C13_Witness ==
    /\ okind = "object" /\ oop = "AddReflected" /\ ofail
    /\ oprev # <<>> /\ obuf = oprev /\ oerr = MarshalErr

(***************************************************************************)
(* Encoders in memory.  A clfEncoder holds a slice and a textEncoder a     *)
(* *buffer.Buffer: both are references, so storage lives in a heap indexed *)
(* by address, and an encoder is the address of its data or buffer.  The   *)
(* pool is the set of addresses of the buffers that were freed; a freed    *)
(* buffer keeps its bytes until it is handed out again.                    *)
(***************************************************************************)
\* most Add* calls of one run
MaxCloneOps == 3

\* pool.Get() handing out a buffer with its old bytes
PoolGets_noReset(h, free) ==
    {[heap |-> h, free |-> free \ {a}, addr |-> a] : a \in free}
    \cup {[heap |-> Append(h, <<>>), free |-> free, addr |-> Len(h) + 1]}

\* pool.Get() leaving the buffer it hands out in the pool
PoolGets_keeping(h, free) ==
    {[heap |-> [h EXCEPT ![a] = <<>>], free |-> free, addr |-> a] : a \in free}
    \cup {[heap |-> Append(h, <<>>), free |-> free, addr |-> Len(h) + 1]}

\* pool.Get(): any buffer of the pool, taken out of it and reset to length
\* 0, or a new buffer; each outcome is [heap, free, addr]
PoolGets(h, free) ==
    {[heap |-> [h EXCEPT ![a] = <<>>], free |-> free \ {a}, addr |-> a] : a \in free}
    \cup {[heap |-> Append(h, <<>>), free |-> free, addr |-> Len(h) + 1]}

\* Clone() handing the original's slice to the copy
ClfCarryingClone_sharing(h, a) == [heap |-> h, addr |-> a]

\* clfEncoder.Clone(): make a slice, copy(data, e.data)
ClfCarryingClone(h, a) ==
    [heap |-> Append(h, clfEncoder_Clone(h[a])), addr |-> Len(h) + 1]

\* clfEncoder.clone(): make a slice, copy(data, clfFieldsEmpty)
ClfFreshSibling(h, a) ==
    [heap |-> Append(h, clfEncoder_clone(h[a])), addr |-> Len(h) + 1]

\* textEncoder.clone(): CloneWithBuffer(pool.Get())
TextFreshSibling(h, free, a) == PoolGets(h, free)

\* Clone() keeping the original's buffer
TextCarryingClone_sharing(h, free, a) == {[heap |-> h, free |-> free, addr |-> a]}

\* textEncoder.Clone(): enc := e.clone(); enc.buf.Write(e.buf.Bytes())
TextCarryingClone(h, free, a) ==
    {[r EXCEPT !.heap = [r.heap EXCEPT ![r.addr] = @ \o r.heap[a]]] :
        r \in TextFreshSibling(h, free, a)}

ClonePool == { StringField(kName, <<115,118,99>>), Int64Field(kStatus, 200),
               StringField(kPath, <<47>>), StringField(kOther, <<118>>) }

\* a buffer freed after an earlier entry, still holding its bytes: "old\n"
StaleBuffer == <<111,108,100,10>>

\* f.AddTo on the encoder whose storage is v
CloneAddTo(v, f) ==
    IF hkind = "clf" THEN clfAddTo(v, f)
    ELSE textAddTo([buf |-> v, colorStart |-> <<>>], f).buf

\* Clone() on the original
HClone ==
    /\ hclone = 0
    /\ IF hkind = "clf"
       THEN LET r == ClfCarryingClone(heap, horig)
            IN  heap' = r.heap /\ hclone' = r.addr /\ UNCHANGED hfree
       ELSE \E r \in TextCarryingClone(heap, hfree, horig) :
                heap' = r.heap /\ hclone' = r.addr /\ hfree' = r.free
    /\ gclone' = gorig
    /\ gsnap' = gorig
    /\ UNCHANGED <<hkind, horig, hsib, gorig, hcnt>>
    /\ UNCHANGED <<harnessVars, clfVars, jsonVars, escVars, opsVars, concVars, cfgVars, valVars, newVars, traceVars, respVars>>

\* clone() on the original
HSibling ==
    /\ hsib = 0
    /\ IF hkind = "clf"
       THEN LET r == ClfFreshSibling(heap, horig)
            IN  heap' = r.heap /\ hsib' = r.addr /\ UNCHANGED hfree
       ELSE \E r \in TextFreshSibling(heap, hfree, horig) :
                heap' = r.heap /\ hsib' = r.addr /\ hfree' = r.free
    /\ UNCHANGED <<hkind, horig, hclone, gorig, gclone, gsnap, hcnt>>
    /\ UNCHANGED <<harnessVars, clfVars, jsonVars, escVars, opsVars, concVars, cfgVars, valVars, newVars, traceVars, respVars>>

\* an Add* call on the original
HAddOrig(f) ==
    /\ hcnt < MaxCloneOps
    /\ heap' = [heap EXCEPT ![horig] = CloneAddTo(@, f)]
    /\ gorig' = CloneAddTo(gorig, f)
    /\ hcnt' = hcnt + 1
    /\ UNCHANGED <<hkind, hfree, horig, hclone, hsib, gclone, gsnap>>
    /\ UNCHANGED <<harnessVars, clfVars, jsonVars, escVars, opsVars, concVars, cfgVars, valVars, newVars, traceVars, respVars>>

\* an Add* call on the carrying clone
HAddClone(f) ==
    /\ hcnt < MaxCloneOps
    /\ hclone # 0
    /\ heap' = [heap EXCEPT ![hclone] = CloneAddTo(@, f)]
    /\ gclone' = CloneAddTo(gclone, f)
    /\ hcnt' = hcnt + 1
    /\ UNCHANGED <<hkind, hfree, horig, hclone, hsib, gorig, gsnap>>
    /\ UNCHANGED <<harnessVars, clfVars, jsonVars, escVars, opsVars, concVars, cfgVars, valVars, newVars, traceVars, respVars>>

CloneNext ==
    \/ HClone
    \/ HSibling
    \/ \E f \in ClonePool : HAddOrig(f)
    \/ \E f \in ClonePool : HAddClone(f)

\* a CLF template; a text template next to a pool that is empty or holds a
\* buffer freed earlier
InitClone ==
    /\ HarnessIdle /\ ClfIdle /\ JsonIdle /\ EscIdle /\ OpsIdle /\ ConcIdle /\ CfgIdle /\ ValIdle /\ NewIdle /\ TraceIdle /\ RespIdle
    /\ hkind \in {"clf", "text"}
    /\ horig = 1
    /\ hclone = 0
    /\ hsib = 0
    /\ gclone = <<>>
    /\ gsnap = <<>>
    /\ hcnt = 0
    /\ IF hkind = "clf"
       THEN heap = <<NewCLFEncoder>> /\ hfree = {} /\ gorig = NewCLFEncoder
       ELSE /\ gorig = NewTextEncoder.buf
            /\ \/ heap = <<NewTextEncoder.buf>> /\ hfree = {}
               \/ heap = <<NewTextEncoder.buf, StaleBuffer>> /\ hfree = {2}
SpecClone == InitClone /\ [][CloneNext]_vars

\* C15: the CLF Clone() returns an encoder whose columns equal the
\* original's at the moment of cloning; afterwards the clone holds exactly
\* what its own Add* calls wrote on top of that and the original exactly
\* what its own calls wrote, whatever was called on the other; clone()
\* returns an encoder whose eleven columns are all "-" whatever the
\* original held.
C15_ClfCloneIndependent ==
    hkind = "clf" =>
        /\ heap[horig] = gorig
        /\ hclone # 0 => (hclone # horig /\ heap[hclone] = gclone)
        /\ hsib # 0 =>
              /\ Len(heap[hsib]) = 11
              /\ \A i \in 1..11 : heap[hsib][i] = <<45>>

\* columns were set before Clone(), then on the original and on the clone
C15_Witness ==
    /\ hkind = "clf" /\ hclone # 0 /\ hsib # 0
    /\ gsnap # NewCLFEncoder
    /\ heap[horig] # gsnap /\ heap[hclone] # gsnap
    /\ heap[horig] # heap[hclone]

\* C16: the text Clone() returns an encoder on a different buffer that
\* holds a copy of the bytes written to the original; afterwards each of
\* the two buffers holds exactly what was appended through its own
\* encoder; clone() starts from an empty buffer.
C16_TextCloneIndependent ==
    hkind = "text" =>
        /\ heap[horig] = gorig
        /\ hclone # 0 => (hclone # horig /\ heap[hclone] = gclone)
        /\ hsib # 0 => (hsib # horig /\ hsib # hclone /\ heap[hsib] = <<>>)
        /\ horig \notin hfree /\ hclone \notin hfree /\ hsib \notin hfree

\* bytes were written before Clone(), then to the original and to the
\* clone; the clone's buffer came out of the pool
C16_Witness ==
    /\ hkind = "text" /\ hclone = 2 /\ hsib # 0
    /\ gsnap # <<>>
    /\ heap[horig] # gsnap /\ heap[hclone] # gsnap
    /\ heap[horig] # heap[hclone]

(***************************************************************************)
(* Concurrent callers of EncodeEntry on one shared template.  Each caller  *)
(* runs the method step by step: the fresh sibling and pool.Get(), the     *)
(* message, one loop iteration per field, the return; the facade then      *)
(* writes the buffer out and frees it.  Steps of different callers         *)
(* interleave in any order.                                                *)
(***************************************************************************)
\* the callers
NumProcs == 2
\* the buffers that exist at most: the template's and one per caller
MaxBufs == NumProcs + 1

Procs == 1..NumProcs

ConcCalls == {
    [ent |-> [msg |-> <<109>>, level |-> "info"],
     fs  |-> <<StringField(kName, <<115,118,99>>)>>],
    [ent |-> [msg |-> <<>>, level |-> "error"],
     fs  |-> <<Int64Field(kStatus, 200), StringField(kPath, <<47>>)>>],
    [ent |-> [msg |-> <<119>>, level |-> "warn"], fs |-> <<>>] }

NoCall == [ent |-> NoEntry, fs |-> <<>>]

\* final := e.clone() and the buffer from the pool
QClone(p, c) ==
    /\ qpc[p] = "idle"
    /\ \E r \in PoolGets(qheap, qfree) :
          /\ Len(r.heap) <= MaxBufs
          /\ qheap' = r.heap
          /\ qfree' = r.free
          /\ qbuf' = [qbuf EXCEPT ![p] = r.addr]
    /\ qsib' = [qsib EXCEPT ![p] =
                   IF qkind = "clf" THEN clfEncoder_clone(NewCLFEncoder)
                   ELSE textEncoder_clone(NewTextEncoder).colorStart]
    /\ qcall' = [qcall EXCEPT ![p] = c]
    /\ qidx' = [qidx EXCEPT ![p] = 1]
    /\ qpc' = [qpc EXCEPT ![p] = "msg"]
    /\ UNCHANGED qkind
    /\ UNCHANGED <<harnessVars, clfVars, jsonVars, escVars, opsVars, cloneVars, cfgVars, valVars, newVars, traceVars, respVars>>

\* text: the colour switch and addMessage; clf: the message line
QMessage(p) ==
    /\ qpc[p] = "msg"
    /\ LET ent == qcall[p].ent
           b   == qheap[qbuf[p]]
       IN  IF qkind = "clf"
           THEN /\ qheap' = [qheap EXCEPT ![qbuf[p]] = b \o clfWriteMessage(ent.msg)]
                /\ UNCHANGED qsib
           ELSE /\ qsib' = [qsib EXCEPT ![p] = LevelColor(ent.level)]
                /\ qheap' = [qheap EXCEPT ![qbuf[p]] =
                       textEncoder_addMessage(
                           [buf |-> b, colorStart |-> LevelColor(ent.level)],
                           LevelName(ent.level), ent.msg).buf]
    /\ qpc' = [qpc EXCEPT ![p] = "loop"]
    /\ UNCHANGED <<qkind, qfree, qbuf, qcall, qidx>>
    /\ UNCHANGED <<harnessVars, clfVars, jsonVars, escVars, opsVars, cloneVars, cfgVars, valVars, newVars, traceVars, respVars>>

\* one iteration of the field loop
QField(p) ==
    /\ qpc[p] = "loop"
    /\ qidx[p] <= Len(qcall[p].fs)
    /\ LET f == qcall[p].fs[qidx[p]]
       IN  IF qkind = "clf"
           THEN /\ qsib' = [qsib EXCEPT ![p] = clfAddTo(@, f)]
                /\ UNCHANGED qheap
           ELSE /\ qheap' = [qheap EXCEPT ![qbuf[p]] =
                       textAddTo([buf |-> @, colorStart |-> qsib[p]], f).buf \o <<32>>]
                /\ UNCHANGED qsib
    /\ qidx' = [qidx EXCEPT ![p] = @ + 1]
    /\ UNCHANGED <<qkind, qfree, qpc, qbuf, qcall>>
    /\ UNCHANGED <<harnessVars, clfVars, jsonVars, escVars, opsVars, cloneVars, cfgVars, valVars, newVars, traceVars, respVars>>

\* the end of the loop: the column line or the "\n", and the return
QReturn(p) ==
    /\ qpc[p] = "loop"
    /\ qidx[p] > Len(qcall[p].fs)
    /\ qheap' = [qheap EXCEPT ![qbuf[p]] =
           IF qkind = "clf"
           THEN (IF Len(qcall[p].fs) = 0 THEN @ ELSE clfWriteLine(@, qsib[p]))
           ELSE @ \o <<10>>]
    /\ qpc' = [qpc EXCEPT ![p] = "returned"]
    /\ UNCHANGED <<qkind, qfree, qbuf, qcall, qidx, qsib>>
    /\ UNCHANGED <<harnessVars, clfVars, jsonVars, escVars, opsVars, cloneVars, cfgVars, valVars, newVars, traceVars, respVars>>

\* the facade has written the buffer out: buf.Free()
QFree(p) ==
    /\ qpc[p] = "returned"
    /\ qfree' = qfree \cup {qbuf[p]}
    /\ qbuf' = [qbuf EXCEPT ![p] = 0]
    /\ qpc' = [qpc EXCEPT ![p] = "idle"]
    /\ qcall' = [qcall EXCEPT ![p] = NoCall]
    /\ qidx' = [qidx EXCEPT ![p] = 1]
    /\ qsib' = [qsib EXCEPT ![p] = <<>>]
    /\ UNCHANGED <<qkind, qheap>>
    /\ UNCHANGED <<harnessVars, clfVars, jsonVars, escVars, opsVars, cloneVars, cfgVars, valVars, newVars, traceVars, respVars>>

ConcNext ==
    \/ \E p \in Procs, c \in ConcCalls : QClone(p, c)
    \/ \E p \in Procs : QMessage(p)
    \/ \E p \in Procs : QField(p)
    \/ \E p \in Procs : QReturn(p)
    \/ \E p \in Procs : QFree(p)

InitConc ==
    /\ HarnessIdle /\ ClfIdle /\ JsonIdle /\ EscIdle /\ OpsIdle /\ CloneIdle /\ CfgIdle /\ ValIdle /\ NewIdle /\ TraceIdle /\ RespIdle
    /\ qkind \in {"text", "clf"}
    /\ qheap = IF qkind = "text" THEN <<NewTextEncoder.buf>> ELSE <<>>
    /\ qfree = {}
    /\ qpc = [p \in Procs |-> "idle"]
    /\ qbuf = [p \in Procs |-> 0]
    /\ qcall = [p \in Procs |-> NoCall]
    /\ qidx = [p \in Procs |-> 1]
    /\ qsib = [p \in Procs |-> <<>>]
SpecConc == InitConc /\ [][ConcNext]_vars

InFlight(p) == qpc[p] # "idle"

\* what the call returns when it runs alone on the template
Alone(c) ==
    IF qkind = "clf" THEN clfEncoder_EncodeEntry(NewCLFEncoder, c.ent, c.fs).buf
    ELSE textEncoder_EncodeEntry(NewTextEncoder, c.ent, c.fs).buf

\* C17: for concurrent EncodeEntry calls on one text or CLF template, each
\* call in flight holds a buffer of its own: no two calls hold the same
\* buffer, none holds the template's buffer or a buffer lying in the pool;
\* the buffer a call got from the pool has length zero; and each call
\* returns exactly the bytes it returns when it runs alone.
C17_ConcurrentCallsIndependent ==
    /\ \A p \in Procs :
          InFlight(p) =>
              /\ qbuf[p] \in 1..Len(qheap)
              /\ qbuf[p] \notin qfree
              /\ qkind = "text" => qbuf[p] # 1
              /\ \A o \in Procs \ {p} : InFlight(o) => qbuf[o] # qbuf[p]
    /\ \A p \in Procs : qpc[p] = "msg" => qheap[qbuf[p]] = <<>>
    /\ \A p \in Procs : qpc[p] = "returned" => qheap[qbuf[p]] = Alone(qcall[p])
    /\ qkind = "text" => qheap[1] = NewTextEncoder.buf

\* two calls with different entries in flight at once, one returned on a
\* buffer that came out of the pool, the other in its field loop
C17_Witness ==
    /\ \E p, o \in Procs :
          /\ p # o
          /\ qpc[p] = "returned" /\ qpc[o] = "loop" /\ qidx[o] > 1
          /\ qcall[p] # qcall[o]
          /\ qheap[qbuf[p]] = Alone(qcall[p])
          /\ qheap[qbuf[p]] # <<>>
    /\ qfree # {}

(***************************************************************************)
(* Two CLF encoders built with different configurations encode the same    *)
(* entry, step by step as in SpecCLF: the message line, one AddTo per      *)
(* field, the column line.                                                 *)
(***************************************************************************)
\* most fields of one entry
MaxCfgFields == 2

Configs == [EncodeTime : {"nil", "Layout"}, EncodeDuration : {"nil", "Nanos"}]

kTime     == clfFields[5]
kDuration == clfFields[6]

CfgDurations == {0, 65000, 999999, 1000000, 1999999, 12345678,
                 -1, -999999, -1999999}

CfgTimes == {
    [year |-> 2024, month |-> 1, day |-> 2, hour |-> 3, min |-> 4, sec |-> 5,
     off |-> 0],
    [year |-> 1999, month |-> 12, day |-> 31, hour |-> 23, min |-> 59, sec |-> 59,
     off |-> 330],
    [year |-> 2024, month |-> 6, day |-> 15, hour |-> 12, min |-> 0, sec |-> 0,
     off |-> -480] }

CfgPool ==
    {DurationField(kDuration, d) : d \in CfgDurations}
    \cup {TimeField(kTime, t) : t \in CfgTimes}
    \cup { DurationField(kSize, 65000), DurationField(kOther, 65000),
           StringField(kName, <<115,118,99>>) }

\* both encoders: the fresh sibling, the buffer, the message line
CfgBegin(m) ==
    /\ gpc = "idle"
    /\ gmsg' = m
    /\ gfs' = <<>>
    /\ gdata' = <<clfEncoder_clone(NewCLFEncoder), clfEncoder_clone(NewCLFEncoder)>>
    /\ gbuf' = <<clfWriteMessage(m), clfWriteMessage(m)>>
    /\ gpc' = "loop"
    /\ UNCHANGED gcfg
    /\ UNCHANGED <<harnessVars, clfVars, jsonVars, escVars, opsVars, cloneVars, concVars, valVars, newVars, traceVars, respVars>>

\* both encoders: fields[i].AddTo(final)
CfgField(f) ==
    /\ gpc = "loop"
    /\ Len(gfs) < MaxCfgFields
    /\ gdata' = <<clfAddToCfg(gdata[1], gcfg[1], f), clfAddToCfg(gdata[2], gcfg[2], f)>>
    /\ gfs' = Append(gfs, f)
    /\ UNCHANGED <<gcfg, gpc, gmsg, gbuf>>
    /\ UNCHANGED <<harnessVars, clfVars, jsonVars, escVars, opsVars, cloneVars, concVars, valVars, newVars, traceVars, respVars>>

\* both encoders: no field, the buffer as it is; else the column line
CfgEnd ==
    /\ gpc = "loop"
    /\ gbuf' = IF gfs = <<>> THEN gbuf
               ELSE <<clfWriteLine(gbuf[1], gdata[1]), clfWriteLine(gbuf[2], gdata[2])>>
    /\ gpc' = "done"
    /\ UNCHANGED <<gcfg, gmsg, gfs, gdata>>
    /\ UNCHANGED <<harnessVars, clfVars, jsonVars, escVars, opsVars, cloneVars, concVars, valVars, newVars, traceVars, respVars>>

CfgNext ==
    \/ \E m \in ClfMsgs : CfgBegin(m)
    \/ \E f \in CfgPool : CfgField(f)
    \/ CfgEnd

InitCfg ==
    /\ HarnessIdle /\ ClfIdle /\ JsonIdle /\ EscIdle /\ OpsIdle /\ CloneIdle /\ ValIdle /\ NewIdle /\ TraceIdle /\ RespIdle
    /\ ConcIdle
    /\ gcfg \in Configs \X Configs
    /\ gpc = "idle"
    /\ gmsg = <<>>
    /\ gfs = <<>>
    /\ gdata = <<clfFieldsEmpty, clfFieldsEmpty>>
    /\ gbuf = <<<<>>, <<>>>>
SpecCfg == InitCfg /\ [][CfgNext]_vars

IsDigit(b) == b \in 48..57

\* dddd-dd-ddTdd:dd:dd followed by Z or by +dd:dd or -dd:dd
IsRFC3339(v) ==
    /\ Len(v) \in {20, 25}
    /\ \A i \in {1,2,3,4,6,7,9,10,12,13,15,16,18,19} : IsDigit(v[i])
    /\ v[5] = 45 /\ v[8] = 45 /\ v[11] = 84 /\ v[14] = 58 /\ v[17] = 58
    /\ IF Len(v) = 20 THEN v[20] = 90
       ELSE /\ v[20] \in {43, 45} /\ v[23] = 58
            /\ \A i \in {21,22,24,25} : IsDigit(v[i])

\* the last field supplied
LastField == gfs[Len(gfs)]

\* C19: two CLF encoders built with different time and duration overrides
\* hold the same columns after the same fields and return the same bytes
\* for the same entry; a time field is in the RFC 3339 layout whatever the
\* configuration.
C19_ConfigIndependent ==
    /\ gdata[1] = gdata[2]
    /\ gbuf[1] = gbuf[2]
    /\ (gfs # <<>> /\ LastField.type = "Time") =>
          (IsRFC3339(gdata[1][5]) /\ IsRFC3339(gdata[2][5]))

\* a duration of a millisecond or more and a time went through an encoder
\* without overrides and through one with both overrides
C19_Witness ==
    /\ gpc = "done" /\ Len(gfs) = 2
    /\ gcfg[1] = NilConfig
    /\ gcfg[2] = [EncodeTime |-> "Layout", EncodeDuration |-> "Nanos"]
    /\ gfs[1].type = "Duration" /\ gfs[1].key = kDuration /\ gfs[1].num >= 1000000
    /\ gfs[2].type = "Time"
    /\ gbuf[2] # <<>>
    /\ gdata[2][6] = FormatInt(Duration_Milliseconds(gfs[1].num))

\* q is d / 1,000,000 truncated toward zero
TruncatedMs(d, q) ==
    LET ad == IF d < 0 THEN 0 - d ELSE d
        aq == IF q < 0 THEN 0 - q ELSE q
    IN  /\ aq * 1000000 <= ad
        /\ ad < (aq + 1) * 1000000
        /\ (d >= 0 => q >= 0)
        /\ (d <= 0 => q <= 0)

\* C20: a duration field of d nanoseconds under the key "duration" is
\* rendered in its column as the decimal integer d / 1,000,000 truncated
\* toward zero: 65,000 ns as "0", 1,999,999 ns as "1".
C20_DurationWholeMs ==
    (gfs # <<>> /\ LastField.type = "Duration" /\ LastField.key = kDuration) =>
        LET d == LastField.num
            v == gdata[1][6]
        IN  /\ \E q \in -20..20 : TruncatedMs(d, q) /\ v = FormatInt(q)
            /\ d = 65000 => v = <<48>>
            /\ d = 1999999 => v = <<49>>
            /\ gpc = "done" => Contains(gbuf[1], <<32>> \o v \o <<32, 34>>)

\* 1,999,999 ns rendered as 1 in the sixth column of the line
C20_Witness ==
    /\ gpc = "done" /\ gfs # <<>>
    /\ LastField.type = "Duration" /\ LastField.key = kDuration
    /\ LastField.num = 1999999
    /\ gdata[1][6] = <<49>>
    /\ Contains(gbuf[1], <<32, 49, 32, 34>>)

(***************************************************************************)
(* Floats and timestamps on the three encoders (SpecVal).  One object      *)
(* encoder, one text encoder and one CLF encoder built from the same       *)
(* configuration receive float and time fields; vprev is the encoders      *)
(* before the last call, vop the call, and vseen the time.Time the last    *)
(* time call handed to the formatter.                                      *)
(***************************************************************************)
\* most calls in one run
MaxValOps == 2

\* a float is NaN, +Inf, -Inf or a finite count of halves (1.5 is 3 halves)
Floats == [kind : {"NaN", "+Inf", "-Inf"}, halves : {0}]
              \cup [kind : {"finite"}, halves : {3, -4}]

\* float64(value): widening a float32 keeps the value
float64_of_float32(value) == value

\* strconv.AppendFloat(b, f, 'f', -1, bitSize)
buffer_AppendFloat(buf, f, bitSize) ==
    buf \o (CASE f.kind = "NaN"  -> <<78, 97, 78>>
              [] f.kind = "+Inf" -> <<43, 73, 110, 102>>
              [] f.kind = "-Inf" -> <<45, 73, 110, 102>>
              [] OTHER ->
                   LET a == IF f.halves < 0 THEN 0 - f.halves ELSE f.halves
                   IN  (IF f.halves < 0 THEN <<45>> ELSE <<>>)
                           \o FormatUint(a \div 2)
                           \o (IF a % 2 = 1 THEN <<46, 53>> ELSE <<>>))

objectEncoder_AppendFloat64(buf, v) == buffer_AppendFloat(buf, v, 64)
genericEncoder_AppendFloat64(buf, v) == buffer_AppendFloat(buf, v, 64)

\* AddFloat64 writing the token with buf.AppendString, unquoted
objectEncoder_AddFloat64_bare(buf, key, value) ==
    LET k == objectEncoder_addKey(buf, key)
    IN  CASE value.kind = "NaN"  -> k \o <<78, 97, 78>>
          [] value.kind = "+Inf" -> k \o <<43, 73, 110, 102>>
          [] value.kind = "-Inf" -> k \o <<45, 73, 110, 102>>
          [] OTHER -> objectEncoder_AppendFloat64(k, value)

objectEncoder_AddFloat64(buf, key, value) ==
    LET k == objectEncoder_addKey(buf, key)
    IN  CASE value.kind = "NaN"  -> objectEncoder_AppendString(k, <<78, 97, 78>>)
          [] value.kind = "+Inf" -> objectEncoder_AppendString(k, <<43, 73, 110, 102>>)
          [] value.kind = "-Inf" -> objectEncoder_AppendString(k, <<45, 73, 110, 102>>)
          [] OTHER -> objectEncoder_AppendFloat64(k, value)

objectEncoder_AddFloat32(buf, key, value) ==
    objectEncoder_AddFloat64(buf, key, float64_of_float32(value))

textEncoder_AddFloat64(e, key, value) ==
    LET k == textEncoder_addKey(e, key)
    IN  [k EXCEPT !.buf =
           CASE value.kind = "NaN"  -> genericEncoder_AppendString(@, <<78, 97, 78>>)
             [] value.kind = "+Inf" -> genericEncoder_AppendString(@, <<43, 73, 110, 102>>)
             [] value.kind = "-Inf" -> genericEncoder_AppendString(@, <<45, 73, 110, 102>>)
             [] OTHER -> genericEncoder_AppendFloat64(@, value)]

textEncoder_AddFloat32(e, key, value) ==
    textEncoder_AddFloat64(e, key, float64_of_float32(value))

clfEncoder_AddFloat64(e, key, value) ==
    IF clfFieldsMapHas(key)
    THEN [e EXCEPT ![clfFieldsMap(key)] =
            CASE value.kind = "NaN"  -> <<78, 97, 78>>
              [] value.kind = "+Inf" -> <<43, 73, 110, 102>>
              [] value.kind = "-Inf" -> <<45, 73, 110, 102>>
              [] OTHER -> buffer_AppendFloat(<<>>, value, 64)]
    ELSE e

clfEncoder_AddFloat32(e, key, value) ==
    clfEncoder_AddFloat64(e, key, float64_of_float32(value))

\* time.Time.UTC(): the same instant with offset zero.  The wall clock moves
\* by the offset and may cross midnight; the inputs keep the day inside the
\* month.
Time_UTC(t) ==
    LET m == t.hour * 60 + t.min - t.off
        d == IF m < 0 THEN -1 ELSE IF m >= 1440 THEN 1 ELSE 0
        w == m - d * 1440
    IN  [t EXCEPT !.day = @ + d, !.hour = w \div 60, !.min = w % 60, !.off = 0]

\* buffer.AppendTime(t, layout) with layout time.RFC3339
buffer_AppendTime(buf, t) == [buf |-> buf \o Format_RFC3339(t), seen |-> t]

\* a configured EncodeTime (zapcore.RFC3339TimeEncoder) called with an
\* objectEncoder: enc.AppendString(t.Format(layout))
EncodeTime_object(buf, t) ==
    [buf |-> objectEncoder_AppendString(buf, Format_RFC3339(t)), seen |-> t]

\* the same formatter called with a genericEncoder
EncodeTime_generic(buf, t) ==
    [buf |-> genericEncoder_AppendString(buf, Format_RFC3339(t)), seen |-> t]

genericEncoder_AppendTime(buf, cfg, v) ==
    IF cfg.EncodeTime # "nil" THEN EncodeTime_generic(buf, v)
    ELSE buffer_AppendTime(buf, v)

objectEncoder_AppendTime(buf, cfg, v) ==
    IF cfg.EncodeTime # "nil" THEN EncodeTime_object(buf, Time_UTC(v))
    ELSE buffer_AppendTime(buf, Time_UTC(v))

objectEncoder_AddTime(buf, cfg, key, value) ==
    LET k == objectEncoder_addKey(buf, key)
    IN  IF cfg.EncodeTime # "nil" THEN EncodeTime_object(k, value)
        ELSE objectEncoder_AppendTime(k, cfg, value)

textEncoder_AddTime(e, cfg, key, value) ==
    LET k == textEncoder_addKey(e, key)
        r == genericEncoder_AppendTime(k.buf, cfg, value)
    IN  [enc |-> [k EXCEPT !.buf = r.buf], seen |-> r.seen]

ValKeys == {kSize, kOther}

ValTimes == {
    [year |-> 2024, month |-> 1, day |-> 2, hour |-> 3, min |-> 4, sec |-> 5,
     off |-> 0],
    [year |-> 2024, month |-> 1, day |-> 2, hour |-> 3, min |-> 4, sec |-> 5,
     off |-> 330],
    [year |-> 2024, month |-> 6, day |-> 15, hour |-> 20, min |-> 30, sec |-> 0,
     off |-> -480] }

ValStep(op) ==
    /\ vcnt < MaxValOps
    /\ vcnt' = vcnt + 1
    /\ vprev' = [obj |-> vobj, txt |-> vtxt, clf |-> vclf]
    /\ vop' = op
    /\ UNCHANGED vcfg
    /\ UNCHANGED <<harnessVars, clfVars, jsonVars, escVars, opsVars, cloneVars, concVars, cfgVars, newVars, traceVars, respVars>>

FloatOp(enc, name, k, v) ==
    [enc |-> enc, op |-> name, key |-> k, fval |-> v, tval |-> NoTime]

TimeOp(enc, name, k, t) ==
    [enc |-> enc, op |-> name, key |-> k, fval |-> NoFloat, tval |-> t]

ObjAddFloat64 ==
    \E k \in ValKeys, v \in Floats :
        /\ ValStep(FloatOp("object", "AddFloat64", k, v))
        /\ vobj' = objectEncoder_AddFloat64(vobj, k, v)
        /\ UNCHANGED <<vtxt, vclf, vseen>>

ObjAddFloat32 ==
    \E k \in ValKeys, v \in Floats :
        /\ ValStep(FloatOp("object", "AddFloat32", k, v))
        /\ vobj' = objectEncoder_AddFloat32(vobj, k, v)
        /\ UNCHANGED <<vtxt, vclf, vseen>>

TextAddFloat64 ==
    \E k \in ValKeys, v \in Floats :
        /\ ValStep(FloatOp("text", "AddFloat64", k, v))
        /\ vtxt' = textEncoder_AddFloat64(vtxt, k, v)
        /\ UNCHANGED <<vobj, vclf, vseen>>

TextAddFloat32 ==
    \E k \in ValKeys, v \in Floats :
        /\ ValStep(FloatOp("text", "AddFloat32", k, v))
        /\ vtxt' = textEncoder_AddFloat32(vtxt, k, v)
        /\ UNCHANGED <<vobj, vclf, vseen>>

ClfAddFloat64 ==
    \E k \in ValKeys, v \in Floats :
        /\ ValStep(FloatOp("clf", "AddFloat64", k, v))
        /\ vclf' = clfEncoder_AddFloat64(vclf, k, v)
        /\ UNCHANGED <<vobj, vtxt, vseen>>

ClfAddFloat32 ==
    \E k \in ValKeys, v \in Floats :
        /\ ValStep(FloatOp("clf", "AddFloat32", k, v))
        /\ vclf' = clfEncoder_AddFloat32(vclf, k, v)
        /\ UNCHANGED <<vobj, vtxt, vseen>>

ObjAddTime ==
    \E k \in ValKeys, t \in ValTimes :
        LET r == objectEncoder_AddTime(vobj, vcfg, k, t) IN
        /\ ValStep(TimeOp("object", "AddTime", k, t))
        /\ vobj' = r.buf
        /\ vseen' = r.seen
        /\ UNCHANGED <<vtxt, vclf>>

ObjAppendTime ==
    \E t \in ValTimes :
        LET r == objectEncoder_AppendTime(vobj, vcfg, t) IN
        /\ ValStep(TimeOp("object", "AppendTime", <<>>, t))
        /\ vobj' = r.buf
        /\ vseen' = r.seen
        /\ UNCHANGED <<vtxt, vclf>>

\* the text encoder's embedded genericEncoder
GenAppendTime ==
    \E t \in ValTimes :
        LET r == genericEncoder_AppendTime(vtxt.buf, vcfg, t) IN
        /\ ValStep(TimeOp("generic", "AppendTime", <<>>, t))
        /\ vtxt' = [vtxt EXCEPT !.buf = r.buf]
        /\ vseen' = r.seen
        /\ UNCHANGED <<vobj, vclf>>

TextAddTime ==
    \E k \in ValKeys, t \in ValTimes :
        LET r == textEncoder_AddTime(vtxt, vcfg, k, t) IN
        /\ ValStep(TimeOp("text", "AddTime", k, t))
        /\ vtxt' = r.enc
        /\ vseen' = r.seen
        /\ UNCHANGED <<vobj, vclf>>

ValNext ==
    \/ ObjAddFloat64
    \/ ObjAddFloat32
    \/ TextAddFloat64
    \/ TextAddFloat32
    \/ ClfAddFloat64
    \/ ClfAddFloat32
    \/ ObjAddTime
    \/ ObjAppendTime
    \/ GenAppendTime
    \/ TextAddTime

InitVal ==
    /\ HarnessIdle /\ ClfIdle /\ JsonIdle /\ EscIdle /\ OpsIdle /\ CloneIdle /\ NewIdle /\ TraceIdle /\ RespIdle
    /\ ConcIdle /\ CfgIdle
    /\ vcfg \in {c \in Configs : c.EncodeDuration = "nil"}
    /\ vobj = <<>>
    /\ vtxt = NewTextEncoder
    /\ vclf = clfFieldsEmpty
    /\ vprev = [obj |-> <<>>, txt |-> NewTextEncoder, clf |-> clfFieldsEmpty]
    /\ vop = NoValOp
    /\ vseen = NoTime
    /\ vcnt = 0

SpecVal == InitVal /\ [][ValNext]_vars

(***************************************************************************)
(* C21                                                                     *)
(***************************************************************************)
ClaimToken(v) ==
    CASE v.kind = "NaN"  -> <<78, 97, 78>>            \* NaN
      [] v.kind = "+Inf" -> <<43, 73, 110, 102>>      \* +Inf
      [] v.kind = "-Inf" -> <<45, 73, 110, 102>>      \* -Inf

SpecialFloatOp ==
    /\ vop.op \in {"AddFloat64", "AddFloat32"}
    /\ vop.fval.kind \in {"NaN", "+Inf", "-Inf"}

\* what the text and CLF encoders hold after a special float: the key and
\* the bare token, or the bare token in the key's column
BareInTextAndClf ==
    /\ vop.enc = "text" =>
         vtxt.buf = textEncoder_addKey(vprev.txt, vop.key).buf \o ClaimToken(vop.fval)
    /\ vop.enc = "clf" =>
         /\ clfFieldsMapHas(vop.key) =>
              vclf = [vprev.clf EXCEPT ![clfFieldsMap(vop.key)] = ClaimToken(vop.fval)]
         /\ ~clfFieldsMapHas(vop.key) => vclf = vprev.clf

\* C21 as stated: a float field that is NaN, +Inf or -Inf is written as the
\* bytes NaN, +Inf or -Inf with nothing around them, by the object, text and
\* CLF encoders, for float64 and float32 fields.
C21_SpecialFloatsBare ==
    SpecialFloatOp =>
        /\ BareInTextAndClf
        /\ vop.enc = "object" =>
             vobj = objectEncoder_addKey(vprev.obj, vop.key) \o ClaimToken(vop.fval)

\* C21 amended: the text and CLF encoders write the bare token; the object
\* encoder writes the token as a JSON string, between double quotes.
C21_SpecialFloatsTokens ==
    SpecialFloatOp =>
        /\ BareInTextAndClf
        /\ vop.enc = "object" =>
             vobj = objectEncoder_addKey(vprev.obj, vop.key)
                        \o <<34>> \o ClaimToken(vop.fval) \o <<34>>

C21_Witness ==
    /\ vcnt = 2
    /\ vop.enc = "object" /\ vop.op = "AddFloat32" /\ vop.fval.kind = "-Inf"
    /\ vop.key = kSize
    /\ EndsWith(vobj, <<34, 115, 105, 122, 101, 34, 58, 34, 45, 73, 110, 102, 34>>)
    /\ vclf[clfFieldsMap(kSize)] = <<43, 73, 110, 102>>

(***************************************************************************)
(* C22                                                                     *)
(***************************************************************************)
TimeCall == vop.op \in {"AddTime", "AppendTime"}

\* C22: the object encoder hands the formatter the timestamp converted to
\* UTC, with the configured formatter and with the default layout, through
\* AddTime and through AppendTime; the generic and text encoders hand it
\* over with its zone unchanged.
C22_ObjectTimesUTC ==
    TimeCall =>
        /\ vop.enc = "object" => vseen = Time_UTC(vop.tval) /\ vseen.off = 0
        /\ vop.enc \in {"generic", "text"} => vseen = vop.tval

\* the three cases in which the object encoder does convert
C22_ObjectTimesUTCElsewhere ==
    (TimeCall /\ ~(vop.enc = "object" /\ vop.op = "AddTime" /\ vcfg.EncodeTime # "nil"))
        => C22_ObjectTimesUTC

(***************************************************************************)
(* logging.New and the loggers it builds (SpecNew).  The process           *)
(* environment and a list of options are chosen, New runs once, and the    *)
(* logger it returns receives log calls; nout and nerr are what reached    *)
(* stdout and stderr.                                                      *)
(***************************************************************************)
\* most options given to New
MaxOpts == 2
\* most log calls on one logger
MaxLogs == 2

\* zapcore.Level
zapcore_DebugLevel == -1
zapcore_InfoLevel == 0
zapcore_WarnLevel == 1
zapcore_ErrorLevel == 2
zapcore_FatalLevel == 5

sText       == <<116,101,120,116>>                          \* "text"
sJson       == <<106,115,111,110>>                          \* "json"
sCommon     == <<99,111,109,109,111,110>>                   \* "common"
sDocker     == <<100,111,99,107,101,114>>                   \* "docker"
sK8s        == <<107,56,115>>                               \* "k8s"
sKubernetes == <<107,117,98,101,114,110,101,116,101,115>>   \* "kubernetes"
sDebug      == <<100,101,98,117,103>>                       \* "debug"
sInfo       == <<105,110,102,111>>                          \* "info"
sWarn       == <<119,97,114,110>>                           \* "warn"
sError      == <<101,114,114,111,114>>                      \* "error"
sFatal      == <<102,97,116,97,108>>                        \* "fatal"

\* strings.ToLower leaving the text as it is
strings_ToLower_none(s) == s

\* strings.ToLower on ASCII text
strings_ToLower(s) ==
    [i \in 1..Len(s) |-> IF s[i] >= 65 /\ s[i] <= 90 THEN s[i] + 32 ELSE s[i]]

\* os.Getenv("LOG_FORMAT"), "json" when empty
formatFromEnv(env) == IF env.LOG_FORMAT = <<>> THEN sJson ELSE env.LOG_FORMAT

\* zapcore.Level.UnmarshalText: the level names in any case, "" is info
Level_UnmarshalText(text) ==
    LET lit == strings_ToLower(text)
    IN  CASE lit = sDebug -> [ok |-> TRUE, level |-> zapcore_DebugLevel]
          [] lit = sInfo \/ lit = <<>> -> [ok |-> TRUE, level |-> zapcore_InfoLevel]
          [] lit = sWarn -> [ok |-> TRUE, level |-> zapcore_WarnLevel]
          [] lit = sError -> [ok |-> TRUE, level |-> zapcore_ErrorLevel]
          [] lit = <<100,112,97,110,105,99>> -> [ok |-> TRUE, level |-> 3]    \* dpanic
          [] lit = <<112,97,110,105,99>> -> [ok |-> TRUE, level |-> 4]        \* panic
          [] lit = sFatal -> [ok |-> TRUE, level |-> zapcore_FatalLevel]
          [] OTHER -> [ok |-> FALSE, level |-> zapcore_InfoLevel]

levelFromEnv(env) ==
    LET r == Level_UnmarshalText(env.LOG_LEVEL)
    IN  IF r.ok THEN r.level ELSE zapcore_InfoLevel

defaultOptions(env) == [Format |-> formatFromEnv(env), Level |-> levelFromEnv(env)]

\* An Option is a function on the options that may fail.  WithConfig holds
\* a JSON text that either does not parse or sets "format".
WithFormatText == [kind |-> "WithFormatText", format |-> <<>>, level |-> 0]
WithFormatJSON == [kind |-> "WithFormatJSON", format |-> <<>>, level |-> 0]
WithConfig(f)  == [kind |-> "WithConfig", format |-> f, level |-> 0]
WithConfigBad  == [kind |-> "WithConfigBad", format |-> <<>>, level |-> 0]
WithLogLevel(l) == [kind |-> "WithLogLevel", format |-> <<>>, level |-> l]
\* an Option of the caller's that returns an error
FailingOption  == [kind |-> "Failing", format |-> <<>>, level |-> 0]

\* fn(o): the options after the call and whether it returned an error
Option_call(fn, o) ==
    CASE fn.kind = "WithFormatText" -> [o |-> [o EXCEPT !.Format = sText], err |-> FALSE]
      [] fn.kind = "WithFormatJSON" -> [o |-> [o EXCEPT !.Format = sJson], err |-> FALSE]
      [] fn.kind = "WithConfig" -> [o |-> [o EXCEPT !.Format = fn.format], err |-> FALSE]
      [] fn.kind = "WithLogLevel" -> [o |-> [o EXCEPT !.Level = fn.level], err |-> FALSE]
      [] OTHER -> [o |-> o, err |-> TRUE]

\* options.apply going on after an option has failed and returning the last
\* option's error
RECURSIVE options_apply_all(_, _, _)
options_apply_all(o, opts, i) ==
    IF i > Len(opts) THEN [o |-> o, err |-> FALSE, ran |-> Len(opts)]
    ELSE LET r == Option_call(opts[i], o)
             t == options_apply_all(r.o, opts, i + 1)
         IN  IF i = Len(opts) THEN [t EXCEPT !.err = r.err] ELSE t

\* options.apply: the loop from option i on; ran counts the options called
RECURSIVE options_apply(_, _, _)
options_apply(o, opts, i) ==
    IF i > Len(opts) THEN [o |-> o, err |-> FALSE, ran |-> Len(opts)]
    ELSE LET r == Option_call(opts[i], o)
         IN  IF r.err THEN [o |-> r.o, err |-> TRUE, ran |-> i]
             ELSE options_apply(r.o, opts, i + 1)

NilLogger == [encoder |-> "nil", minLogLevel |-> 0, Format |-> <<>>]

\* New: the logger (NilLogger for nil), the error ("" for nil) and the
\* number of options that were called
New(env, opts) ==
    LET a == options_apply(defaultOptions(env), opts, 1)
        f == strings_ToLower(a.o.Format)
        enc == CASE f = <<>> \/ f = sText \/ f = sDocker -> "text"
                 [] f = sJson \/ f = sK8s \/ f = sKubernetes -> "json"
                 [] f = sCommon -> "common"
                 [] OTHER -> "nil"
    IN  IF a.err THEN [logger |-> NilLogger, err |-> "option", ran |-> a.ran]
        ELSE IF enc = "nil"
        THEN [logger |-> NilLogger, err |-> "unsupported", ran |-> a.ran]
        ELSE [logger |-> [encoder |-> enc, minLogLevel |-> a.o.Level,
                          Format |-> a.o.Format],
              err |-> "", ran |-> a.ran]

\* the stdout enabler without the minimum level
outLevel_noMinimum(minLogLevel, lvl) == lvl < zapcore_WarnLevel

outLevel(minLogLevel, lvl) == lvl >= minLogLevel /\ lvl < zapcore_WarnLevel

errLevel(minLogLevel, lvl) == lvl >= minLogLevel /\ lvl >= zapcore_WarnLevel

NewEnvs == [LOG_FORMAT : {<<>>, <<75,56,83>>, <<121,97,109,108>>},   \* K8S yaml
            LOG_LEVEL : {<<>>, sDebug}]

OptionPool == { WithFormatText, WithFormatJSON,
                WithConfig(<<67,111,109,109,111,110>>),      \* Common
                WithConfig(<<120,109,108>>),                 \* xml
                WithConfigBad, WithLogLevel(zapcore_WarnLevel), FailingOption }

NotCalled == [logger |-> NilLogger, err |-> "not called", ran |-> 0]

CallNew ==
    /\ nres = NotCalled
    /\ \E opts \in SeqsUpTo(OptionPool, MaxOpts) :
          /\ nopts' = opts
          /\ nres' = New(nenv, opts)
    /\ UNCHANGED <<nenv, nout, nerr, nlogs, nexit>>
    /\ UNCHANGED <<harnessVars, clfVars, jsonVars, escVars, opsVars, cloneVars, concVars, cfgVars, valVars, traceVars, respVars>>

\* zap.Logger.Debug ... Error on the tee of the two cores: each core whose
\* enabler accepts the level encodes the entry and writes it to its sink
LogAt(lvl) ==
    /\ nres.err = ""
    /\ ~nexit
    /\ Len(nlogs) < MaxLogs
    /\ nlogs' = Append(nlogs, lvl)
    /\ nout' = IF outLevel(nres.logger.minLogLevel, lvl)
               THEN Append(nout, [level |-> lvl, encoder |-> nres.logger.encoder,
                                  call |-> Len(nlogs) + 1])
               ELSE nout
    /\ nerr' = IF errLevel(nres.logger.minLogLevel, lvl)
               THEN Append(nerr, [level |-> lvl, encoder |-> nres.logger.encoder,
                                  call |-> Len(nlogs) + 1])
               ELSE nerr
    /\ nexit' = (lvl = zapcore_FatalLevel)            \* Fatal: os.Exit(1) after the write
    /\ UNCHANGED <<nenv, nopts, nres>>
    /\ UNCHANGED <<harnessVars, clfVars, jsonVars, escVars, opsVars, cloneVars, concVars, cfgVars, valVars, traceVars, respVars>>

Logger_Debug == LogAt(zapcore_DebugLevel)
Logger_Info  == LogAt(zapcore_InfoLevel)
Logger_Warn  == LogAt(zapcore_WarnLevel)
Logger_Error == LogAt(zapcore_ErrorLevel)
Logger_Fatal == LogAt(zapcore_FatalLevel)

NewNext ==
    \/ CallNew
    \/ Logger_Debug
    \/ Logger_Info
    \/ Logger_Warn
    \/ Logger_Error
    \/ Logger_Fatal

InitNew ==
    /\ HarnessIdle /\ ClfIdle /\ JsonIdle /\ EscIdle /\ OpsIdle /\ CloneIdle /\ TraceIdle /\ RespIdle
    /\ ConcIdle /\ CfgIdle /\ ValIdle
    /\ nenv \in NewEnvs
    /\ nopts = <<>>
    /\ nres = NotCalled
    /\ nout = <<>>
    /\ nerr = <<>>
    /\ nlogs = <<>>
    /\ nexit = FALSE

SpecNew == InitNew /\ [][NewNext]_vars

(***************************************************************************)
(* C23                                                                     *)
(***************************************************************************)
Recognized == {<<>>, sText, sDocker, sJson, sK8s, sKubernetes, sCommon}

Lowered(s) == [i \in 1..Len(s) |-> IF s[i] \in 65..90 THEN s[i] + 32 ELSE s[i]]

OptionFails(fn) == fn.kind \in {"WithConfigBad", "Failing"}

\* the first failing option's position, 0 when none fails
FirstFailing(opts) ==
    IF \E i \in 1..Len(opts) : OptionFails(opts[i])
    THEN CHOOSE i \in 1..Len(opts) :
             OptionFails(opts[i]) /\ \A j \in 1..(i - 1) : ~OptionFails(opts[j])
    ELSE 0

SetsFormat(fn) == fn.kind \in {"WithFormatText", "WithFormatJSON", "WithConfig"}

FormatOf(fn) ==
    CASE fn.kind = "WithFormatText" -> sText
      [] fn.kind = "WithFormatJSON" -> sJson
      [] OTHER -> fn.format

\* the selector New looks at: the last one an option set, else LOG_FORMAT,
\* else "json"
Selector ==
    IF \E i \in 1..Len(nopts) : SetsFormat(nopts[i])
    THEN FormatOf(nopts[CHOOSE i \in 1..Len(nopts) :
                     SetsFormat(nopts[i]) /\ \A j \in (i + 1)..Len(nopts) : ~SetsFormat(nopts[j])])
    ELSE IF nenv.LOG_FORMAT = <<>> THEN sJson ELSE nenv.LOG_FORMAT

NewCalled == nres # NotCalled

\* C23: New returns an error and no logger exactly when an option fails or
\* the selector, lower-cased, is not a recognized one; the options run in
\* order up to the first that fails; a logger that New returned has a fixed
\* encoder and every log call on it is encoded with that encoder.
C23_FailFastAtNew ==
    NewCalled =>
        /\ (nres.err # "") = (nres.logger = NilLogger)
        /\ (nres.err # "") =
              (FirstFailing(nopts) # 0 \/ Lowered(Selector) \notin Recognized)
        /\ FirstFailing(nopts) # 0 =>
              nres.ran = FirstFailing(nopts) /\ nres.err = "option"
        /\ FirstFailing(nopts) = 0 => nres.ran = Len(nopts)
        /\ nres.err = "" =>
              /\ nres.logger.encoder \in {"text", "json", "common"}
              /\ \A i \in 1..Len(nout) : nout[i].encoder = nres.logger.encoder
              /\ \A i \in 1..Len(nerr) : nerr[i].encoder = nres.logger.encoder
        /\ nres.err # "" => nlogs = <<>> /\ nout = <<>> /\ nerr = <<>>

\* New succeeded on an upper-case selector and the logger has logged
C23_Witness ==
    /\ nres.err = ""
    /\ nenv.LOG_FORMAT = <<75,56,83>>
    /\ nopts = <<WithLogLevel(zapcore_WarnLevel)>>
    /\ nres.logger.encoder = "json"
    /\ Len(nerr) = 2

\* New failed on the second option after the first had run
C23_WitnessOption ==
    /\ nres.err = "option"
    /\ nopts = <<WithFormatText, FailingOption>>
    /\ nres.ran = 2

(***************************************************************************)
(* C28                                                                     *)
(***************************************************************************)
Written(sink, i) == \E j \in 1..Len(sink) : sink[j].call = i

Copies(sink, i) == Cardinality({j \in 1..Len(sink) : sink[j].call = i})

\* C28: a log call at or above the configured minimum level is written
\* once, to stdout when below warn and to stderr when warn or above; a call
\* below the minimum is written to neither.
C28_OneSinkPerEntry ==
    \A i \in 1..Len(nlogs) :
        LET lvl == nlogs[i]
            min == nres.logger.minLogLevel
        IN  /\ (lvl >= min /\ lvl < zapcore_WarnLevel) =>
                 Copies(nout, i) = 1 /\ Copies(nerr, i) = 0
            /\ (lvl >= min /\ lvl >= zapcore_WarnLevel) =>
                 Copies(nout, i) = 0 /\ Copies(nerr, i) = 1
            /\ lvl < min => Copies(nout, i) = 0 /\ Copies(nerr, i) = 0

\* minimum warn: an info call went nowhere, then an error call went to
\* stderr
C28_Witness ==
    /\ nres.err = ""
    /\ nres.logger.minLogLevel = zapcore_WarnLevel
    /\ nlogs = <<zapcore_InfoLevel, zapcore_ErrorLevel>>
    /\ nout = <<>>
    /\ Len(nerr) = 1 /\ nerr[1].level = zapcore_ErrorLevel

\* minimum debug: a debug call went to stdout
C28_WitnessStdout ==
    /\ nres.err = ""
    /\ nres.logger.minLogLevel = zapcore_DebugLevel
    /\ nlogs = <<zapcore_DebugLevel>>
    /\ Len(nout) = 1 /\ nerr = <<>>

(***************************************************************************)
(* tracing.Traceparent and the Tracing middleware (SpecTrace).  A string   *)
(* tin, a random source trnd and a request header mhdr are chosen; Parse,  *)
(* New, NewSpan, String and the middleware then run on them.  A            *)
(* Traceparent is a record of its four fields, bytes are 0..255.           *)
(***************************************************************************)
\* most calls in one run
MaxTraceOps == 2

NilTraceparent == [version |-> -1, traceID |-> <<>>, parentID |-> <<>>,
                   traceFlags |-> -1]

\* const TraceVersion = byte(1)
TraceVersion == 1

\* io.ReadFull(randReader, buf) with len(buf) = n: n bytes, or an error when
\* the source ends first
io_ReadFull(r, n) ==
    IF Len(r) >= n
    THEN [ok |-> TRUE, bytes |-> SubSeq(r, 1, n), rest |-> SubSeq(r, n + 1, Len(r))]
    ELSE [ok |-> FALSE, bytes |-> <<>>, rest |-> <<>>]

\* the first 16 of the upper-case digits
hextable_upper == <<48,49,50,51,52,53,54,55,56,57,65,66,67,68,69,70>>

\* const hextable = "0123456789abcdef"
hextable == <<48,49,50,51,52,53,54,55,56,57,97,98,99,100,101,102>>

\* hex.EncodeToString written with upper-case digits
hex_EncodeToString_upper(src) ==
    [i \in 1..(2 * Len(src)) |->
        IF i % 2 = 1 THEN hextable_upper[(src[(i + 1) \div 2] \div 16) + 1]
        ELSE hextable_upper[(src[i \div 2] % 16) + 1]]

hex_EncodeToString(src) ==
    [i \in 1..(2 * Len(src)) |->
        IF i % 2 = 1 THEN hextable[(src[(i + 1) \div 2] \div 16) + 1]
        ELSE hextable[(src[i \div 2] % 16) + 1]]

\* hex.fromHexChar: the digit's value, -1 for a byte that is no hex digit
fromHexChar(c) ==
    CASE c >= 48 /\ c <= 57  -> c - 48
      [] c >= 97 /\ c <= 102 -> c - 97 + 10
      [] c >= 65 /\ c <= 70  -> c - 65 + 10
      [] OTHER -> -1

\* hex.DecodeString: an error for an odd length or a byte that is no digit
hex_DecodeString(s) ==
    IF Len(s) % 2 = 1 \/ \E i \in 1..Len(s) : fromHexChar(s[i]) < 0
    THEN [err |-> TRUE, bytes |-> <<>>]
    ELSE [err |-> FALSE,
          bytes |-> [i \in 1..(Len(s) \div 2) |->
                        16 * fromHexChar(s[2 * i - 1]) + fromHexChar(s[2 * i])]]

\* the position of the k-th "-" of s; 0 before the first part and
\* Len(s) + 1 after the last
SepAt(s, k) ==
    LET seps == {i \in 1..Len(s) : s[i] = 45}
    IN  IF k = 0 THEN 0
        ELSE IF k > Cardinality(seps) THEN Len(s) + 1
        ELSE CHOOSE d \in seps : Cardinality({x \in seps : x < d}) = k - 1

\* strings.Split(s, "-")
strings_Split(s) ==
    [k \in 1..(CountByte(s, 45) + 1) |->
        SubSeq(s, SepAt(s, k - 1) + 1, SepAt(s, k) - 1)]

\* Parse checking that the four parts are hex and not how long they are
Traceparent_Parse_anyLength(s) ==
    LET parts == strings_Split(s) IN
    IF Len(parts) # 4 THEN [t |-> NilTraceparent, err |-> TRUE]
    ELSE LET version == hex_DecodeString(parts[1])
             traceID == hex_DecodeString(parts[2])
             parentID == hex_DecodeString(parts[3])
             traceFlags == hex_DecodeString(parts[4])
         IN  IF \/ version.err \/ Len(version.bytes) # 1
                \/ traceID.err
                \/ parentID.err
                \/ traceFlags.err \/ Len(traceFlags.bytes) # 1
             THEN [t |-> NilTraceparent, err |-> TRUE]
             ELSE [t |-> [version |-> version.bytes[1], traceID |-> traceID.bytes,
                          parentID |-> parentID.bytes,
                          traceFlags |-> traceFlags.bytes[1]],
                   err |-> FALSE]

\* tracing.Parse
Traceparent_Parse(s) ==
    LET parts == strings_Split(s) IN
    IF Len(parts) # 4 THEN [t |-> NilTraceparent, err |-> TRUE]
    ELSE LET version == hex_DecodeString(parts[1])
             traceID == hex_DecodeString(parts[2])
             parentID == hex_DecodeString(parts[3])
             traceFlags == hex_DecodeString(parts[4])
         IN  IF \/ version.err \/ Len(version.bytes) # 1
                \/ traceID.err \/ Len(traceID.bytes) # 16
                \/ parentID.err \/ Len(parentID.bytes) # 8
                \/ traceFlags.err \/ Len(traceFlags.bytes) # 1
             THEN [t |-> NilTraceparent, err |-> TRUE]
             ELSE [t |-> [version |-> version.bytes[1], traceID |-> traceID.bytes,
                          parentID |-> parentID.bytes,
                          traceFlags |-> traceFlags.bytes[1]],
                   err |-> FALSE]

\* tracing.New: 24 bytes of the random source
Traceparent_New(r) ==
    LET seed == io_ReadFull(r, 24) IN
    IF ~seed.ok THEN [t |-> NilTraceparent, err |-> TRUE, rest |-> seed.rest]
    ELSE [t |-> [version |-> TraceVersion, traceID |-> SubSeq(seed.bytes, 1, 16),
                 parentID |-> SubSeq(seed.bytes, 17, 24), traceFlags |-> 0],
          err |-> FALSE, rest |-> seed.rest]

\* NewSpan copying the receiver's parent-id
Traceparent_NewSpan_sameParent(t, r) ==
    LET id == io_ReadFull(r, 8) IN
    IF ~id.ok THEN [t |-> NilTraceparent, err |-> TRUE, rest |-> id.rest]
    ELSE [t |-> t, err |-> FALSE, rest |-> id.rest]

\* (*Traceparent).NewSpan; the receiver is read and not written
Traceparent_NewSpan(t, r) ==
    LET id == io_ReadFull(r, 8) IN
    IF ~id.ok THEN [t |-> NilTraceparent, err |-> TRUE, rest |-> id.rest]
    ELSE [t |-> [version |-> t.version, traceID |-> t.traceID,
                 parentID |-> id.bytes, traceFlags |-> t.traceFlags],
          err |-> FALSE, rest |-> id.rest]

\* (*Traceparent).String
Traceparent_String(t) ==
    hex_EncodeToString(<<t.version>>) \o <<45>>
        \o hex_EncodeToString(t.traceID) \o <<45>>
        \o hex_EncodeToString(t.parentID) \o <<45>>
        \o hex_EncodeToString(<<t.traceFlags>>)

\* parts for the input strings: well formed, of a wrong length, with a byte
\* that is no hex digit
VersionParts == { <<48,49>>, <<102,70>>, <<48,120>>, <<48,49,48,50>> }  \* 01 fF 0x 0102
TraceIDParts == { Repeat(<<48,97,102,49>>, 8),                   \* 0af1 x 8
                  Repeat(<<65,98,57,67>>, 8),                    \* Ab9C x 8
                  Repeat(<<48,97>>, 15) \o <<48>> }              \* 31 digits
ParentIDParts == { Repeat(<<100,69,52,48>>, 4),                  \* dE40 x 4
                   Repeat(<<48,49>>, 9),                         \* 18 digits
                   Repeat(<<48,49>>, 7) \o <<48,71>> }           \* ...0G
FlagsParts == { <<48,48>>, <<49>>, <<70,70>> }                   \* 00 1 FF

TraceStrings ==
    { v \o <<45>> \o i \o <<45>> \o p \o <<45>> \o f :
        v \in VersionParts, i \in TraceIDParts, p \in ParentIDParts, f \in FlagsParts }
    \cup { <<>>,
           <<48,49>> \o <<45>> \o Repeat(<<48,97,102,49>>, 8) \o <<45>>
               \o Repeat(<<100,69,52,48>>, 4),                             \* three parts
           <<48,49>> \o <<45>> \o Repeat(<<48,97,102,49>>, 8) \o <<45>>
               \o Repeat(<<100,69,52,48>>, 4) \o <<45,48,48,45,48,48>>,    \* five parts
           <<48,49>> \o <<45>> \o Repeat(<<48,97,102,49>>, 8) \o <<45>>
               \o Repeat(<<100,69,52,48>>, 4) \o <<45,48,48,45>>,          \* ends in "-"
           <<48,49>> \o Repeat(<<48,97,102,49>>, 8)
               \o Repeat(<<100,69,52,48>>, 4) \o <<48,48>> }               \* no "-"

\* what the random source still holds
RandBytes(n) == [i \in 1..n |-> (i * 37 + 11) % 256]

RandSources == { RandBytes(n) : n \in {0, 8, 24, 40} }

TraceStep(name) ==
    /\ tcnt < MaxTraceOps
    /\ tcnt' = tcnt + 1
    /\ top' = name
    /\ tprev' = tcur
    /\ tprnd' = trnd
    /\ UNCHANGED tin
    /\ UNCHANGED <<harnessVars, clfVars, jsonVars, escVars, opsVars, cloneVars, concVars, cfgVars, valVars, newVars, respVars>>

\* t, err := tracing.Parse(tin)
TParse ==
    LET r == Traceparent_Parse(tin) IN
    /\ TraceStep("Parse")
    /\ tcur' = r.t
    /\ terr' = r.err
    /\ tfrom' = "Parse"
    /\ UNCHANGED <<tnew, tout, tback, trnd, mhdr, mreq, mctx, mnext>>

\* t, err := tracing.New()
TNew ==
    LET r == Traceparent_New(trnd) IN
    /\ TraceStep("New")
    /\ tcur' = r.t
    /\ terr' = r.err
    /\ trnd' = r.rest
    /\ tfrom' = "New"
    /\ UNCHANGED <<tnew, tout, tback, mhdr, mreq, mctx, mnext>>

\* tt, err := t.NewSpan()
TNewSpan ==
    LET r == Traceparent_NewSpan(tcur, trnd) IN
    /\ tcur # NilTraceparent
    /\ TraceStep("NewSpan")
    /\ tnew' = r.t
    /\ terr' = r.err
    /\ trnd' = r.rest
    /\ UNCHANGED <<tcur, tfrom, tout, tback, mhdr, mreq, mctx, mnext>>

\* s := t.String(); tracing.Parse(s)
TString ==
    /\ tcur # NilTraceparent
    /\ TraceStep("String")
    /\ tout' = Traceparent_String(tcur)
    /\ tback' = Traceparent_Parse(Traceparent_String(tcur))
    /\ UNCHANGED <<tcur, tfrom, terr, tnew, trnd, mhdr, mreq, mctx, mnext>>

\* http.Header.Get: the first value, "" when there is none
Header_Get(h) == IF h = <<>> THEN <<>> ELSE h[1]

\* The handler Tracing(headerName)(next) serving one request whose header
\* is mhdr.  mnext counts the calls of next.ServeHTTP for this request, mctx
\* is the traceparent in the context next receives.
Tracing ==
    LET s == Header_Get(mhdr)
        tp == IF s # <<>> THEN Traceparent_Parse(s).t ELSE NilTraceparent
        g == Traceparent_New(trnd)
    IN  /\ TraceStep("Tracing")
        /\ UNCHANGED <<tcur, tfrom, terr, tnew, tout, tback>>
        /\ mreq' = mhdr
        /\ IF tp # NilTraceparent
           THEN /\ mctx' = tp
                /\ mnext' = 1
                /\ UNCHANGED <<mhdr, trnd>>
           ELSE /\ trnd' = g.rest
                /\ IF g.err
                   THEN /\ mnext' = 0                           \* return
                        /\ mctx' = NilTraceparent
                        /\ UNCHANGED mhdr
                   ELSE /\ mhdr' = <<Traceparent_String(g.t)>>
                        /\ mctx' = g.t
                        /\ mnext' = 1

\* grpclog.TracingContext on incoming metadata whose values for the trace
\* header are mhdr; mctx is the traceparent in the context it returns
TracingContext ==
    LET tp == IF mhdr # <<>> THEN Traceparent_Parse(mhdr[1]).t ELSE NilTraceparent
        g == Traceparent_New(trnd)
    IN  /\ TraceStep("TracingContext")
        /\ UNCHANGED <<tcur, tfrom, terr, tnew, tout, tback, mnext>>
        /\ mreq' = mhdr
        /\ IF tp # NilTraceparent
           THEN /\ mctx' = tp
                /\ mhdr' = Append(mhdr, Traceparent_String(tp))
                /\ UNCHANGED trnd
           ELSE /\ trnd' = g.rest
                /\ IF g.err
                   THEN /\ mctx' = NilTraceparent               \* return ctx
                        /\ UNCHANGED mhdr
                   ELSE /\ mhdr' = Append(mhdr, Traceparent_String(g.t))
                        /\ mctx' = g.t

TraceNext ==
    \/ TParse
    \/ TNew
    \/ TNewSpan
    \/ TString
    \/ Tracing
    \/ TracingContext

InitTrace ==
    /\ HarnessIdle /\ ClfIdle /\ JsonIdle /\ EscIdle /\ OpsIdle /\ CloneIdle /\ RespIdle
    /\ ConcIdle /\ CfgIdle /\ ValIdle /\ NewIdle
    /\ tin \in TraceStrings
    /\ trnd \in RandSources
    /\ mhdr \in {<<>>, <<tin>>}
    /\ tcur = NilTraceparent
    /\ terr = FALSE
    /\ top = "none"
    /\ tprev = NilTraceparent
    /\ tnew = NilTraceparent
    /\ tout = <<>>
    /\ tback = [t |-> NilTraceparent, err |-> FALSE]
    /\ tprnd = <<>>
    /\ tfrom = "none"
    /\ mreq = <<>>
    /\ mctx = NilTraceparent
    /\ mnext = 0
    /\ tcnt = 0

SpecTrace == InitTrace /\ [][TraceNext]_vars

(***************************************************************************)
(* C24                                                                     *)
(***************************************************************************)
IsHexDigit(c) == c \in (48..57) \cup (97..102) \cup (65..70)

\* 2, 32, 16 and 2 hex digits with "-" between them: 55 bytes with "-" at
\* 3, 36 and 53
WellFormed(s) ==
    /\ Len(s) = 55
    /\ \A i \in 1..55 : IF i \in {3, 36, 53} THEN s[i] = 45 ELSE IsHexDigit(s[i])

\* C24: Parse returns a Traceparent and no error exactly for the strings
\* made of four "-"-separated parts of 2, 32, 16 and 2 hex digits, and nil
\* and an error for every other string.
C24_ParseAcceptsWellFormed ==
    top = "Parse" =>
        /\ terr = ~WellFormed(tin)
        /\ terr = (tcur = NilTraceparent)

C24_Witness ==
    /\ top = "Parse" /\ ~terr
    /\ tin = <<102,70>> \o <<45>> \o Repeat(<<65,98,57,67>>, 8) \o <<45>>
                 \o Repeat(<<100,69,52,48>>, 4) \o <<45>> \o <<70,70>>
    /\ tcur.version = 255 /\ tcur.traceFlags = 255

\* a string with 31 digits in its second part was refused
C24_WitnessRefused ==
    /\ top = "Parse" /\ terr /\ tcur = NilTraceparent
    /\ Len(tin) = 54 /\ CountByte(tin, 45) = 3

(***************************************************************************)
(* C25                                                                     *)
(***************************************************************************)
LowerHex(s) == [i \in 1..Len(s) |-> IF s[i] \in 65..70 THEN s[i] + 32 ELSE s[i]]

\* C25: parsing the string form of a Traceparent gives the Traceparent back,
\* and the string form of a parsed string is the string with its digits in
\* lower case.
C25_ParseStringRoundTrip ==
    /\ top = "String" => ~tback.err /\ tback.t = tcur
    /\ (top = "String" /\ tfrom = "Parse") => tout = LowerHex(tin)

\* a string with upper-case digits was parsed and written back
C25_Witness ==
    /\ top = "String" /\ tfrom = "Parse"
    /\ tin = <<102,70>> \o <<45>> \o Repeat(<<65,98,57,67>>, 8) \o <<45>>
                 \o Repeat(<<100,69,52,48>>, 4) \o <<45>> \o <<70,70>>
    /\ tout = <<102,102>> \o <<45>> \o Repeat(<<97,98,57,99>>, 8) \o <<45>>
                 \o Repeat(<<100,101,52,48>>, 4) \o <<45>> \o <<102,102>>
    /\ tback.t = tcur

(***************************************************************************)
(* C26                                                                     *)
(***************************************************************************)
\* C26: NewSpan returns a Traceparent with the receiver's version, trace-id
\* and flags and the next 8 bytes of the random source as parent-id; when
\* the source fails it returns nil and an error; the receiver is unchanged
\* either way.
C26_NewSpanFrame ==
    top = "NewSpan" =>
        /\ tcur = tprev
        /\ Len(tprnd) >= 8 =>
              /\ ~terr
              /\ tnew.version = tprev.version
              /\ tnew.traceID = tprev.traceID
              /\ tnew.traceFlags = tprev.traceFlags
              /\ tnew.parentID = SubSeq(tprnd, 1, 8)
              /\ trnd = SubSeq(tprnd, 9, Len(tprnd))
        /\ Len(tprnd) < 8 => terr /\ tnew = NilTraceparent

C26_Witness ==
    /\ top = "NewSpan" /\ ~terr
    /\ tnew.parentID = SubSeq(RandBytes(8), 1, 8)
    /\ tnew.parentID # tprev.parentID
    /\ tnew.traceID = tprev.traceID /\ Len(tnew.traceID) = 16

\* the random source failed
C26_WitnessFailure ==
    /\ top = "NewSpan" /\ terr /\ tnew = NilTraceparent /\ tcur # NilTraceparent

(***************************************************************************)
(* C27                                                                     *)
(***************************************************************************)
ValidHeader == mreq # <<>> /\ WellFormed(mreq[1])

\* C27: the middleware calls next once for every request, with a context
\* that carries a traceparent: the parsed header when the header is present
\* and valid, else a new one that is also written into the header; next is
\* called even when no traceparent can be generated.
C27_NextCalledOnce ==
    top = "Tracing" =>
        /\ mnext = 1
        /\ mctx # NilTraceparent
        /\ ValidHeader => mctx = Traceparent_Parse(mreq[1]).t /\ mhdr = mreq
        /\ ~ValidHeader =>
              /\ mctx.traceID = SubSeq(tprnd, 1, 16)
              /\ mctx.parentID = SubSeq(tprnd, 17, 24)
              /\ mhdr = <<Traceparent_String(mctx)>>

\* the same for the requests that carry a valid header or find 24 bytes in
\* the random source
C27_NextCalledOnceWhenGenerated ==
    (ValidHeader \/ Len(tprnd) >= 24) => C27_NextCalledOnce

(***************************************************************************)
(* httplog response loggers (SpecResp).  A wrapped http.ResponseWriter     *)
(* with some of the optional interfaces is given to NewResponseLogger or   *)
(* NewRawResponseLogger; the logger then receives WriteHeader and Write    *)
(* calls.  A logger is the chain of wrapper types around the writer,       *)
(* outermost first, with the rwDefault's code and size and the raw         *)
(* logger's buffer.  rwhist is the calls made and what they returned.      *)
(***************************************************************************)
\* most WriteHeader and Write calls on one logger
MaxRespOps == 3

Capabilities == {"Flush", "Hijack", "Push"}

\* the methods of the ResponseLogger interface
ResponseLoggerMethods ==
    {"Header", "Write", "WriteHeader", "Size", "StatusCode", "Fields",
     "WithField", "WithFields", "Field", "Request"}

\* The method set of a wrapper type: its own methods and those promoted from
\* the embedded ResponseLogger interface (for rwDefault, from the embedded
\* http.ResponseWriter).
MethodSet(typ) ==
    ResponseLoggerMethods \cup
        (CASE typ = "rwFlusher" -> {"Flush"}
           [] typ = "rwHijacker" -> {"Hijack"}
           [] typ = "rwPusher" -> {"Push"}
           [] typ = "rwDefaultRaw" -> {"Buffer", "Response"}
           [] OTHER -> {})

\* rw.(http.Flusher), rw.(http.Hijacker), rw.(http.Pusher) on a logger: the
\* dynamic type is the outermost wrapper
Implements(l, method) == method \in MethodSet(l.chain[1])

\* an http.ResponseWriter that is no ResponseLogger, with the optional
\* interfaces caps
PlainWriter(caps) == [kind |-> "writer", caps |-> caps]

\* w.(http.Flusher), w.(http.Hijacker), w.(http.Pusher) on a writer
Supports(w, method) ==
    IF w.kind = "logger" THEN Implements(w, method) ELSE method \in w.caps

\* wrapLogger(w) for a writer with the capabilities caps
wrapLogger(caps) ==
    LET c0 == <<"rwDefault">>
        c1 == IF "Flush" \in caps THEN <<"rwFlusher">> \o c0 ELSE c0
        c2 == IF "Hijack" \in caps THEN <<"rwHijacker">> \o c1 ELSE c1
        c3 == IF "Push" \in caps THEN <<"rwPusher">> \o c2 ELSE c2
    IN  [kind |-> "logger", chain |-> c3, code |-> 200, size |-> 0, raw |-> FALSE,
         response |-> <<>>]

\* NewResponseLogger(w): w itself when it is a ResponseLogger
NewResponseLogger(w) == IF w.kind = "logger" THEN w ELSE wrapLogger(w.caps)

\* NewRawResponseLogger(w) for a writer that is no ResponseLogger
NewRawResponseLogger(w) ==
    LET l == wrapLogger(w.caps)
    IN  [l EXCEPT !.chain = <<"rwDefaultRaw">> \o @, !.raw = TRUE]

\* rwDefault.WriteHeader
rwDefault_WriteHeader(l, code) == [l EXCEPT !.code = code]

\* rwDefault.Write: n is what the wrapped writer's Write returned
rwDefault_Write(l, p, n) == [l |-> [l EXCEPT !.size = @ + n], n |-> n]

\* rwDefaultRaw.Write: the result n is never assigned
rwDefaultRaw_Write(l, p, n) ==
    LET b == [l EXCEPT !.response = @ \o p]
    IN  [l |-> rwDefault_Write(b, p, n).l, n |-> 0]

rwDefault_Size(l) == l.size

rwDefault_StatusCode(l) == l.code

rwDefaultRaw_Response(l) == l.response

NoLogger == [kind |-> "nil", chain |-> <<>>, code |-> 0, size |-> 0, raw |-> FALSE,
             response |-> <<>>]

\* the writer the constructors are given: a plain writer, or a
\* ResponseLogger that wrapLogger built around one
GivenWriter == IF rwpre THEN wrapLogger(rwcaps) ELSE PlainWriter(rwcaps)

Chunks == {<<>>, <<97>>, <<98, 99>>}

StatusCodes == {200, 404, 500}

RNewResponseLogger ==
    /\ rwlog = NoLogger
    /\ rwlog' = NewResponseLogger(GivenWriter)
    /\ UNCHANGED <<rwcaps, rwpre, rwhist>>
    /\ UNCHANGED <<harnessVars, clfVars, jsonVars, escVars, opsVars, cloneVars, concVars, cfgVars, valVars, newVars, traceVars>>

RNewRawResponseLogger ==
    /\ rwlog = NoLogger
    /\ ~rwpre
    /\ rwlog' = NewRawResponseLogger(GivenWriter)
    /\ UNCHANGED <<rwcaps, rwpre, rwhist>>
    /\ UNCHANGED <<harnessVars, clfVars, jsonVars, escVars, opsVars, cloneVars, concVars, cfgVars, valVars, newVars, traceVars>>

RWriteHeader ==
    /\ rwlog # NoLogger
    /\ Len(rwhist) < MaxRespOps
    /\ \E code \in StatusCodes :
          /\ rwlog' = rwDefault_WriteHeader(rwlog, code)
          /\ rwhist' = Append(rwhist, [op |-> "WriteHeader", code |-> code,
                                       chunk |-> <<>>, wrote |-> 0, n |-> 0])
    /\ UNCHANGED <<rwcaps, rwpre>>
    /\ UNCHANGED <<harnessVars, clfVars, jsonVars, escVars, opsVars, cloneVars, concVars, cfgVars, valVars, newVars, traceVars>>

\* Write(p) on the logger; the wrapped writer takes w of the bytes
RWrite ==
    /\ rwlog # NoLogger
    /\ Len(rwhist) < MaxRespOps
    /\ \E p \in Chunks : \E w \in 0..Len(p) :
          LET r == IF rwlog.raw THEN rwDefaultRaw_Write(rwlog, p, w)
                   ELSE rwDefault_Write(rwlog, p, w)
          IN  /\ rwlog' = r.l
              /\ rwhist' = Append(rwhist, [op |-> "Write", code |-> 0, chunk |-> p,
                                           wrote |-> w, n |-> r.n])
    /\ UNCHANGED <<rwcaps, rwpre>>
    /\ UNCHANGED <<harnessVars, clfVars, jsonVars, escVars, opsVars, cloneVars, concVars, cfgVars, valVars, newVars, traceVars>>

RespNext ==
    \/ RNewResponseLogger
    \/ RNewRawResponseLogger
    \/ RWriteHeader
    \/ RWrite

InitResp ==
    /\ HarnessIdle /\ ClfIdle /\ JsonIdle /\ EscIdle /\ OpsIdle /\ CloneIdle
    /\ ConcIdle /\ CfgIdle /\ ValIdle /\ NewIdle /\ TraceIdle
    /\ rwcaps \in SUBSET Capabilities
    /\ rwpre \in BOOLEAN
    /\ rwlog = NoLogger
    /\ rwhist = <<>>

SpecResp == InitResp /\ [][RespNext]_vars

(***************************************************************************)
(* C29                                                                     *)
(***************************************************************************)
\* C29: the writer NewResponseLogger returns has Flush, Hijack and Push
\* exactly when the writer it was given has them, for each of the eight
\* sets of capabilities.
C29_CapabilitiesPreserved ==
    (rwlog # NoLogger /\ ~rwlog.raw) =>
        \A cap \in Capabilities : Implements(rwlog, cap) = Supports(GivenWriter, cap)

\* what holds instead: of the capabilities of the wrapped writer the
\* returned one has the last that wrapLogger tested, and no other
C29_LastCapabilityOnly ==
    (rwlog # NoLogger /\ ~rwlog.raw) =>
        \A cap \in Capabilities :
            Implements(rwlog, cap) =
                CASE cap = "Push" -> "Push" \in rwcaps
                  [] cap = "Hijack" -> "Hijack" \in rwcaps /\ "Push" \notin rwcaps
                  [] cap = "Flush" -> rwcaps = {"Flush"}

(***************************************************************************)
(* C30                                                                     *)
(***************************************************************************)
HeaderCalls == {i \in 1..Len(rwhist) : rwhist[i].op = "WriteHeader"}

WriteCalls == {i \in 1..Len(rwhist) : rwhist[i].op = "Write"}

RECURSIVE SumReturned(_)
SumReturned(i) == IF i = 0 THEN 0 ELSE rwhist[i].n + SumReturned(i - 1)

RECURSIVE ChunksUpTo(_)
ChunksUpTo(i) == IF i = 0 THEN <<>> ELSE ChunksUpTo(i - 1) \o rwhist[i].chunk

\* C30: StatusCode() is 200 before any WriteHeader and then the code of
\* the last WriteHeader; every Write returns the count of the wrapped
\* writer and Size() is the sum of the counts returned; the raw logger's
\* Response() is the chunks written, in order.
C30_StatusSizeResponse ==
    rwlog # NoLogger =>
        /\ rwDefault_StatusCode(rwlog) =
              IF HeaderCalls = {} THEN 200
              ELSE rwhist[CHOOSE i \in HeaderCalls : \A j \in HeaderCalls : j <= i].code
        /\ \A i \in WriteCalls : rwhist[i].n = rwhist[i].wrote
        /\ rwDefault_Size(rwlog) = SumReturned(Len(rwhist))
        /\ rwlog.raw => rwDefaultRaw_Response(rwlog) = ChunksUpTo(Len(rwhist))

\* the same on a logger that is not raw
C30_StatusSizeNotRaw == (rwlog # NoLogger /\ ~rwlog.raw) => C30_StatusSizeResponse

\* on the raw logger: the status, the buffer, and the size as the sum of
\* the wrapped writer's counts, with every Write returning 0
C30_RawWriteReturnsZero ==
    (rwlog # NoLogger /\ rwlog.raw) =>
        /\ \A i \in WriteCalls : rwhist[i].n = 0
        /\ rwDefaultRaw_Response(rwlog) = ChunksUpTo(Len(rwhist))

====
